---- MODULE Spec2Model ----
(***************************************************************************)
(* The iCalendar codec of Calendrier: the exporter (eventToVEvent,         *)
(* eventsToICS and their helpers) and the importer (parseICS and its       *)
(* helpers), over texts represented as sequences of one-character strings. *)
(***************************************************************************)
EXTENDS Integers, Sequences, FiniteSets, TLC

VARIABLES
    pc,         \* position of the export/import pipeline
    clock,      \* the date `new Date().toISOString().slice(0, 10)` returns
    uuidNext,   \* number of ids the ambient uuid generator has handed out
    events,     \* the records handed to eventsToICS
    blocks,     \* the VEVENT bodies a hand-written document was assembled from
    ics,        \* the document text: eventsToICS's result / parseICS's input
    options,    \* the options object handed to parseICS
    imported,   \* what parseICS returned
    text,       \* a text value handed to escapeText
    escaped,    \* escapeText(text)
    unescaped,  \* unescapeText(escaped)
    line,       \* a logical line handed to foldLine
    folded,     \* foldLine(line)
    unfolded,   \* unfold(folded)
    call,       \* a helper of the importer applied on its own: argument and result
    swipe,      \* useSwipe: swipeState and the tracking refs of the hook
    loop        \* the page around the hook: touch in progress, pending timers, callbacks run

vars == <<pc, clock, uuidNext, events, blocks, ics, options, imported,
          text, escaped, unescaped, line, folded, unfolded, call, swipe, loop>>

-----------------------------------------------------------------------------
(* Bounds of the checked input space.                                      *)

MaxTextLen == 2     \* longest title or description drawn letter by letter
MaxEscLen == 3      \* longest text handed to escapeText on its own
MaxTail == 2        \* longest free tail of a padded logical line
MaxBlocks == 2      \* most VEVENT blocks of a hand-written document
MaxEvents == 2      \* most records of an exported list
MaxIds == 4         \* ids after which a session stops calling parseICS again
MaxSegments == 3    \* most segments (blocks, stray lines) of a document put together
MaxGestures == 2    \* most touchstarts the swipeable element receives
MaxMoves == 2       \* most touchmoves of one gesture

-----------------------------------------------------------------------------
(* JavaScript values and string primitives.                                *)

UNDEF == <<"undefined">>
NULL == <<"null">>
NaN == 0 - 1

CR == "\r"
LF == "\n"
TAB == "\t"
BS == "\\"
CRLF == <<CR, LF>>

Falsy(v) == v = UNDEF \/ v = NULL \/ v = <<>>

Min(a, b) == IF a < b THEN a ELSE b

\* s.slice(a, b) for 0 <= a <= b
Slice(s, a, b) == IF a >= Min(b, Len(s)) THEN <<>> ELSE SubSeq(s, a + 1, Min(b, Len(s)))

\* the concatenation of the sequences ss[lo], ..., ss[hi]
RECURSIVE FlattenRange(_, _, _)
FlattenRange(ss, lo, hi) ==
    IF lo > hi THEN <<>>
    ELSE IF lo = hi THEN ss[lo]
    ELSE LET mid == (lo + hi) \div 2
         IN FlattenRange(ss, lo, mid) \o FlattenRange(ss, mid + 1, hi)

Flatten(ss) == FlattenRange(ss, 1, Len(ss))

\* ls.join(sep)
Join(ls, sep) == Flatten([k \in 1..(2 * Len(ls) - 1) |-> IF k % 2 = 1 THEN ls[(k + 1) \div 2] ELSE sep])

Pad(c, k) == [i \in 1..k |-> c]

\* A regular expression without repetition is a list of alternatives tried in
\* order, each a list of character classes: /\r?\n[ \t]/ is
\* << <<{CR}, {LF}, {" ", TAB}>>, <<{LF}, {" ", TAB}>> >>.
AltMatches(s, i, alt) ==
    /\ i + Len(alt) - 1 <= Len(s)
    /\ \A k \in 1..Len(alt) : s[i + k - 1] \in alt[k]

\* length of the match of the expression at position i, 0 when there is none
MatchLen(s, i, alts) ==
    IF \E a \in 1..Len(alts) : AltMatches(s, i, alts[a])
    THEN Len(alts[CHOOSE a \in 1..Len(alts) :
                    AltMatches(s, i, alts[a]) /\ \A b \in 1..(a - 1) : ~AltMatches(s, i, alts[b])])
    ELSE 0

\* The global scan of a /g expression over positions lo..hi, left to right:
\* `skip` characters are still inside the previous match; returns the matches
\* found, as their first position and length, and the skip left over.
RECURSIVE ScanRange(_, _, _, _, _)
ScanRange(s, lo, hi, skip, alts) ==
    IF lo > hi THEN [found |-> <<>>, skip |-> skip]
    ELSE IF lo = hi
    THEN IF skip > 0 THEN [found |-> <<>>, skip |-> skip - 1]
         ELSE LET n == MatchLen(s, lo, alts)
              IN IF n > 0 THEN [found |-> <<[at |-> lo, len |-> n]>>, skip |-> n - 1]
                 ELSE [found |-> <<>>, skip |-> 0]
    ELSE LET mid == (lo + hi) \div 2
             left == ScanRange(s, lo, mid, skip, alts)
             right == ScanRange(s, mid + 1, hi, left.skip, alts)
         IN [found |-> left.found \o right.found, skip |-> right.skip]

AllMatches(s, alts) == ScanRange(s, 1, Len(s), 0, alts).found

\* the pieces of s between consecutive matches
Between(s, ms) ==
    [k \in 1..(Len(ms) + 1) |->
        LET from == IF k = 1 THEN 1 ELSE ms[k - 1].at + ms[k - 1].len
            to == IF k > Len(ms) THEN Len(s) ELSE ms[k].at - 1
        IN IF from > to THEN <<>> ELSE SubSeq(s, from, to)]

\* s.split(/re/)
Split(s, alts) == Between(s, AllMatches(s, alts))

\* s.replace(/re/g, rep)
ReplaceAll(s, alts, rep) == Join(Split(s, alts), rep)

\* s.replace(/c/g, rep) for a one-character pattern
ReplaceChar(s, c, rep) == ReplaceAll(s, << <<{c}>> >>, rep)

\* s.replace(/\\x/g, rep): a backslash followed by one character of `second`
ReplacePair(s, second, rep) == ReplaceAll(s, << <<{BS}, second>> >>, rep)

DigitChars == <<"0", "1", "2", "3", "4", "5", "6", "7", "8", "9">>

IsDigit(c) == \E n \in 1..10 : DigitChars[n] = c

DigitVal(c) == (CHOOSE n \in 1..10 : DigitChars[n] = c) - 1

\* String(n) for n >= 0, and for NaN
RECURSIVE NatToStr(_)
NatToStr(n) ==
    IF n = NaN THEN <<"N", "a", "N">>
    ELSE IF n < 10 THEN <<DigitChars[n + 1]>>
    ELSE NatToStr(n \div 10) \o <<DigitChars[(n % 10) + 1]>>

\* s.padStart(2, '0')
PadStart2(s) == IF Len(s) >= 2 THEN s ELSE Pad("0", 2 - Len(s)) \o s

\* Number(s) for a string of decimal digits; NaN otherwise (Number('') is 0)
RECURSIVE DigitsToNat(_)
DigitsToNat(s) == IF s = <<>> THEN 0 ELSE DigitsToNat(SubSeq(s, 1, Len(s) - 1)) * 10 + DigitVal(s[Len(s)])

Number(s) ==
    IF s = UNDEF THEN NaN
    ELSE IF \A i \in 1..Len(s) : IsDigit(s[i]) THEN DigitsToNat(s)
    ELSE NaN

\* s.indexOf(c), 0-based, -1 when absent
IndexOf(s, c) ==
    IF \E i \in 1..Len(s) : s[i] = c
    THEN (CHOOSE i \in 1..Len(s) : s[i] = c /\ \A j \in 1..(i - 1) : s[j] # c) - 1
    ELSE 0 - 1

-----------------------------------------------------------------------------
(* The native Date: local calendar fields, and Invalid Date.               *)

InvalidDate == [y |-> NaN, m |-> NaN, d |-> NaN]

IsLeap(y) == (y % 4 = 0 /\ y % 100 # 0) \/ y % 400 = 0

DaysInMonth(y, m) ==
    IF m = 2 THEN (IF IsLeap(y) THEN 29 ELSE 28)
    ELSE IF m \in {4, 6, 9, 11} THEN 30
    ELSE 31

\* new Date(dateISO + 'T00:00:00') for dateISO of the form YYYY-MM-DD naming a
\* day of the calendar; every other text gives Invalid Date
NewDate(dateISO) ==
    IF /\ Len(dateISO) = 10
       /\ dateISO[5] = "-" /\ dateISO[8] = "-"
       /\ \A i \in {1, 2, 3, 4, 6, 7, 9, 10} : IsDigit(dateISO[i])
    THEN LET y == DigitsToNat(SubSeq(dateISO, 1, 4))
             m == DigitsToNat(SubSeq(dateISO, 6, 7))
             d == DigitsToNat(SubSeq(dateISO, 9, 10))
         IN IF m \in 1..12 /\ d \in 1..DaysInMonth(y, m)
            THEN [y |-> y, m |-> m, d |-> d]
            ELSE InvalidDate
    ELSE InvalidDate

\* d.setDate(d.getDate() + delta) for delta in {-1, 1}
SetDateBy(dt, delta) ==
    IF dt = InvalidDate THEN InvalidDate
    ELSE LET nd == dt.d + delta
         IN IF nd < 1
            THEN (IF dt.m = 1
                  THEN [y |-> dt.y - 1, m |-> 12, d |-> 31]
                  ELSE [y |-> dt.y, m |-> dt.m - 1, d |-> DaysInMonth(dt.y, dt.m - 1)])
            ELSE IF nd > DaysInMonth(dt.y, dt.m)
            THEN (IF dt.m = 12
                  THEN [y |-> dt.y + 1, m |-> 1, d |-> 1]
                  ELSE [y |-> dt.y, m |-> dt.m + 1, d |-> 1])
            ELSE [y |-> dt.y, m |-> dt.m, d |-> nd]

-----------------------------------------------------------------------------
(* icsExporter                                                             *)

MAX == 75

\* continuation fragments one character too long, so that neighbours overlap
RECURSIVE FoldParts_Overlap(_, _)
FoldParts_Overlap(l, pos) ==
    IF pos < Len(l)
    THEN <<<<" ">> \o Slice(l, pos, pos + MAX)>> \o FoldParts_Overlap(l, pos + MAX - 1)
    ELSE <<>>

RECURSIVE FoldParts(_, _)
FoldParts(l, pos) ==
    IF pos < Len(l)
    THEN <<<<" ">> \o Slice(l, pos, pos + MAX - 1)>> \o FoldParts(l, pos + MAX - 1)
    ELSE <<>>

foldLine(l) ==
    IF Len(l) <= MAX THEN l
    ELSE Join(<<Slice(l, 0, MAX)>> \o FoldParts(l, MAX), CRLF)

\* an escaping that lacks `if (!text) return ''` and stringifies what it gets
escapeText_Stringify(t) ==
    LET str == IF t = UNDEF THEN <<"u", "n", "d", "e", "f", "i", "n", "e", "d">>
               ELSE IF t = NULL THEN <<"n", "u", "l", "l">> ELSE t
    IN ReplaceChar(ReplaceChar(ReplaceChar(ReplaceChar(str,
            BS, <<BS, BS>>), ";", <<BS, ";">>), ",", <<BS, ",">>), LF, <<BS, "n">>)

\* an escaping that leaves line feeds as they are
escapeText_KeepsNewlines(t) ==
    IF Falsy(t) THEN <<>>
    ELSE ReplaceChar(ReplaceChar(ReplaceChar(t,
            BS, <<BS, BS>>), ";", <<BS, ";">>), ",", <<BS, ",">>)

escapeText(t) ==
    IF Falsy(t) THEN <<>>
    ELSE ReplaceChar(ReplaceChar(ReplaceChar(ReplaceChar(t,
            BS, <<BS, BS>>), ";", <<BS, ";">>), ",", <<BS, ",">>), LF, <<BS, "n">>)

toICSDate(dateISO) == ReplaceChar(dateISO, "-", <<>>)

toICSDateTime(dateISO, time) == toICSDate(dateISO) \o <<"T">> \o ReplaceChar(time, ":", <<>>) \o <<"0", "0">>

\* a day-after rule that adds one to the day field without consulting the calendar
nextDayICS_Naive(dateISO) ==
    LET d == NewDate(dateISO)
    IN NatToStr(d.y) \o PadStart2(NatToStr(d.m)) \o PadStart2(NatToStr(d.d + 1))

nextDayICS(dateISO) ==
    LET d == SetDateBy(NewDate(dateISO), 1)
    IN NatToStr(d.y) \o PadStart2(NatToStr(d.m)) \o PadStart2(NatToStr(d.d))

\* a UID that also depends on the start date of the record
makeUID_WithStartDate(event) ==
    event.id \o <<"-">> \o toICSDate(event.startDate) \o <<"@", "c", "a", "l", "e", "n", "d", "r", "i", "e", "r">>

makeUID(event) == event.id \o <<"@", "c", "a", "l", "e", "n", "d", "r", "i", "e", "r">>


\* s.split(c) for a one-character separator
SplitOn(s, c) == Split(s, << <<{c}>> >>)

At(arr, k) == IF k <= Len(arr) THEN arr[k] ELSE UNDEF

Plus1(n) == IF n = NaN THEN NaN ELSE n + 1

L_BEGIN_VEVENT == <<"B", "E", "G", "I", "N", ":", "V", "E", "V", "E", "N", "T">>
L_END_VEVENT == <<"E", "N", "D", ":", "V", "E", "V", "E", "N", "T">>
P_UID == <<"U", "I", "D", ":">>
P_DTSTAMP == <<"D", "T", "S", "T", "A", "M", "P", ":">>
P_DTSTART == <<"D", "T", "S", "T", "A", "R", "T", ":">>
P_DTEND == <<"D", "T", "E", "N", "D", ":">>
P_DTSTART_DATE == <<"D", "T", "S", "T", "A", "R", "T", ";", "V", "A", "L", "U", "E", "=", "D", "A", "T", "E", ":">>
P_DTEND_DATE == <<"D", "T", "E", "N", "D", ";", "V", "A", "L", "U", "E", "=", "D", "A", "T", "E", ":">>
P_SUMMARY == <<"S", "U", "M", "M", "A", "R", "Y", ":">>
P_DESCRIPTION == <<"D", "E", "S", "C", "R", "I", "P", "T", "I", "O", "N", ":">>
S_STAMP_TAIL == <<"T", "0", "0", "0", "0", "0", "0", "Z">>

\* boundary lines whose default end is put on endDate instead of startDate
BoundaryLines_DefaultOnEndDate(event) ==
    LET startDate == IF ~Falsy(event.startDate) THEN event.startDate
                     ELSE IF ~Falsy(event.date) THEN event.date ELSE <<>>
        endDate == IF ~Falsy(event.endDate) THEN event.endDate ELSE startDate
        hasTime == ~Falsy(event.startTime)
    IN IF hasTime
       THEN <<P_DTSTART \o toICSDateTime(startDate, event.startTime)>> \o
            (IF ~Falsy(event.endTime)
             THEN <<P_DTEND \o toICSDateTime(endDate, event.endTime)>>
             ELSE LET hm == SplitOn(event.startTime, ":")
                      endH == PadStart2(NatToStr(Plus1(Number(At(hm, 1)))))
                      endM == PadStart2(NatToStr(Number(At(hm, 2))))
                  IN <<P_DTEND \o toICSDateTime(endDate, endH \o <<":">> \o endM)>>)
       ELSE <<P_DTSTART_DATE \o toICSDate(startDate),
              P_DTEND_DATE \o nextDayICS(endDate)>>

\* boundary lines that take a record with an endTime for a timed one
BoundaryLines_TimedByEndTime(event) ==
    LET startDate == IF ~Falsy(event.startDate) THEN event.startDate
                     ELSE IF ~Falsy(event.date) THEN event.date ELSE <<>>
        endDate == IF ~Falsy(event.endDate) THEN event.endDate ELSE startDate
        hasTime == ~Falsy(event.startTime) \/ ~Falsy(event.endTime)
    IN IF hasTime
       THEN <<P_DTSTART \o toICSDateTime(startDate, event.startTime)>> \o
            (IF ~Falsy(event.endTime)
             THEN <<P_DTEND \o toICSDateTime(endDate, event.endTime)>>
             ELSE LET hm == SplitOn(event.startTime, ":")
                      endH == PadStart2(NatToStr(Plus1(Number(At(hm, 1)))))
                      endM == PadStart2(NatToStr(Number(At(hm, 2))))
                  IN <<P_DTEND \o toICSDateTime(startDate, endH \o <<":">> \o endM)>>)
       ELSE <<P_DTSTART_DATE \o toICSDate(startDate),
              P_DTEND_DATE \o nextDayICS(endDate)>>

\* the DTSTART and DTEND lines of eventToVEvent
BoundaryLines(event) ==
    LET startDate == IF ~Falsy(event.startDate) THEN event.startDate
                     ELSE IF ~Falsy(event.date) THEN event.date ELSE <<>>
        endDate == IF ~Falsy(event.endDate) THEN event.endDate ELSE startDate
        hasTime == ~Falsy(event.startTime)
    IN IF hasTime
       THEN <<P_DTSTART \o toICSDateTime(startDate, event.startTime)>> \o
            (IF ~Falsy(event.endTime)
             THEN <<P_DTEND \o toICSDateTime(endDate, event.endTime)>>
             ELSE LET hm == SplitOn(event.startTime, ":")
                      endH == PadStart2(NatToStr(Plus1(Number(At(hm, 1)))))
                      endM == PadStart2(NatToStr(Number(At(hm, 2))))
                  IN <<P_DTEND \o toICSDateTime(startDate, endH \o <<":">> \o endM)>>)
       ELSE <<P_DTSTART_DATE \o toICSDate(startDate),
              P_DTEND_DATE \o nextDayICS(endDate)>>

\* a block that emits DESCRIPTION whether or not there is a description
eventToVEvent_AlwaysDescribes(event, today) ==
    <<L_BEGIN_VEVENT,
      P_UID \o makeUID(event),
      P_DTSTAMP \o toICSDate(today) \o S_STAMP_TAIL>>
    \o BoundaryLines(event)
    \o <<P_SUMMARY \o escapeText(event.title)>>
    \o <<P_DESCRIPTION \o escapeText(event.description)>>
    \o <<L_END_VEVENT>>

eventToVEvent(event, today) ==
    <<L_BEGIN_VEVENT,
      P_UID \o makeUID(event),
      P_DTSTAMP \o toICSDate(today) \o S_STAMP_TAIL>>
    \o BoundaryLines(event)
    \o <<P_SUMMARY \o escapeText(event.title)>>
    \o (IF ~Falsy(event.description)
        THEN <<P_DESCRIPTION \o escapeText(event.description)>>
        ELSE <<>>)
    \o <<L_END_VEVENT>>

CalendarHeader ==
    << <<"B", "E", "G", "I", "N", ":", "V", "C", "A", "L", "E", "N", "D", "A", "R">>,
       <<"V", "E", "R", "S", "I", "O", "N", ":", "2", ".", "0">>,
       <<"P", "R", "O", "D", "I", "D", ":", "-", "/", "/", "C", "a", "l", "e", "n", "d", "r", "i", "e", "r", "/", "/", "F", "R">>,
       <<"C", "A", "L", "S", "C", "A", "L", "E", ":", "G", "R", "E", "G", "O", "R", "I", "A", "N">>,
       <<"M", "E", "T", "H", "O", "D", ":", "P", "U", "B", "L", "I", "S", "H">> >>

L_END_VCALENDAR == <<"E", "N", "D", ":", "V", "C", "A", "L", "E", "N", "D", "A", "R">>

RECURSIVE EventLines(_, _)
EventLines(evs, today) ==
    IF evs = <<>> THEN <<>>
    ELSE eventToVEvent(Head(evs), today) \o EventLines(Tail(evs), today)

\* the lines array of eventsToICS before folding
DocumentLines(evs, today) == CalendarHeader \o EventLines(evs, today) \o <<L_END_VCALENDAR>>

\* a document whose last line has no terminator
eventsToICS_NoFinalCRLF(evs, today) ==
    LET lines == DocumentLines(evs, today)
    IN Join([i \in 1..Len(lines) |-> foldLine(lines[i])], CRLF)

eventsToICS(evs, today) ==
    LET lines == DocumentLines(evs, today)
    IN Join([i \in 1..Len(lines) |-> foldLine(lines[i])], CRLF) \o CRLF

-----------------------------------------------------------------------------
(* icsImporter                                                             *)

\* raw.replace(/\r?\n[ \t]/g, '')
unfold(raw) == ReplaceAll(raw, << <<{CR}, {LF}, {" ", TAB}>>, <<{LF}, {" ", TAB}>> >>, <<>>)

unescapeText(t) ==
    IF Falsy(t) THEN <<>>
    ELSE ReplacePair(ReplacePair(ReplacePair(ReplacePair(t,
            {"n", "N"}, <<LF>>), {","}, <<",">>), {";"}, <<";">>), {BS}, <<BS>>)

\* "YYYY" + "-" + "MM" + "-" + "DD" from the first eight characters
DashedDate(clean) == Slice(clean, 0, 4) \o <<"-">> \o Slice(clean, 4, 6) \o <<"-">> \o Slice(clean, 6, 8)

\* a boundary parser that does not remove the trailing Z
parseDTValue_KeepsZulu(value) ==
    IF Falsy(value) THEN [date |-> <<>>, time |-> NULL]
    ELSE IF Len(value) = 8
    THEN [date |-> DashedDate(value), time |-> NULL]
    ELSE IF Len(value) >= 15 /\ \E i \in 1..Len(value) : value[i] = "T"
    THEN LET timePart == Slice(value, 9, 13)
         IN [date |-> DashedDate(Slice(value, 0, 8)),
             time |-> Slice(timePart, 0, 2) \o <<":">> \o Slice(timePart, 2, 4)]
    ELSE [date |-> <<>>, time |-> NULL]

parseDTValue(value) ==
    IF Falsy(value) THEN [date |-> <<>>, time |-> NULL]
    ELSE LET clean == IF value[Len(value)] = "Z" THEN SubSeq(value, 1, Len(value) - 1) ELSE value
         IN IF Len(clean) = 8
            THEN [date |-> DashedDate(clean), time |-> NULL]
            ELSE IF Len(clean) >= 15 /\ \E i \in 1..Len(clean) : clean[i] = "T"
            THEN LET timePart == Slice(clean, 9, 13)
                 IN [date |-> DashedDate(Slice(clean, 0, 8)),
                     time |-> Slice(timePart, 0, 2) \o <<":">> \o Slice(timePart, 2, 4)]
            ELSE [date |-> <<>>, time |-> NULL]

\* content.split(/\r?\n/)
SplitLines(s) == Split(s, << <<{CR}, {LF}>>, <<{LF}>> >>)

WhiteSpace == {" ", TAB, CR, LF, "\f"}

\* line.trim()
Trim(s) ==
    LET keep == {i \in 1..Len(s) : s[i] \notin WhiteSpace}
    IN IF keep = {} THEN <<>>
       ELSE SubSeq(s, CHOOSE i \in keep : \A j \in keep : i <= j,
                      CHOOSE i \in keep : \A j \in keep : i >= j)

LowerCase == <<"a", "b", "c", "d", "e", "f", "g", "h", "i", "j", "k", "l", "m",
               "n", "o", "p", "q", "r", "s", "t", "u", "v", "w", "x", "y", "z">>
UpperCase == <<"A", "B", "C", "D", "E", "F", "G", "H", "I", "J", "K", "L", "M",
               "N", "O", "P", "Q", "R", "S", "T", "U", "V", "W", "X", "Y", "Z">>

\* key.toUpperCase()
ToUpperCase(s) ==
    [i \in 1..Len(s) |->
        IF \E k \in 1..26 : LowerCase[k] = s[i]
        THEN UpperCase[CHOOSE k \in 1..26 : LowerCase[k] = s[i]]
        ELSE s[i]]

DEFAULT_EVENT_COLOR == "#4F46E5"
PLACEHOLDER_TITLE == <<"É", "v", "é", "n", "e", "m", "e", "n", "t", " ", "i", "m", "p", "o", "r", "t", "é">>

\* uuidv4(): the k-th identifier of the ambient generator
uuidv4(k) == <<"u", "u", "i", "d", "-">> \o NatToStr(k)

\* an exclusivity correction that forgets to step back
PreviousDayISO_NoDecrement(dateISO) == dateISO

\* `${yyyy}-${mm}-${dd}` of the day before dateISO
PreviousDayISO(dateISO) ==
    LET d == SetDateBy(NewDate(dateISO), 0 - 1)
    IN NatToStr(d.y) \o <<"-">> \o PadStart2(NatToStr(d.m)) \o <<"-">> \o PadStart2(NatToStr(d.d))

EmptyBag == [dtstart |-> UNDEF, dtend |-> UNDEF, summary |-> UNDEF, description |-> UNDEF]

\* a finalisation that applies the exclusivity correction to timed blocks too
FinalizeEvent_AlwaysDecrement(current, opts, k) ==
    LET defaultColor == IF "defaultColor" \in DOMAIN opts THEN opts.defaultColor ELSE DEFAULT_EVENT_COLOR
        isHoliday == IF "isHoliday" \in DOMAIN opts THEN opts.isHoliday ELSE FALSE
        start == parseDTValue(current.dtstart)
        end0 == IF ~Falsy(current.dtend) THEN parseDTValue(current.dtend) ELSE start
        end == IF ~Falsy(end0.date) /\ end0.date # start.date
               THEN [end0 EXCEPT !.date = PreviousDayISO(end0.date)]
               ELSE end0
        event == [id |-> uuidv4(k),
                  title |-> IF ~Falsy(current.summary) THEN current.summary ELSE PLACEHOLDER_TITLE,
                  startDate |-> start.date,
                  endDate |-> IF ~Falsy(end.date) THEN end.date ELSE start.date,
                  date |-> start.date,
                  startTime |-> IF ~Falsy(start.time) THEN start.time ELSE <<>>,
                  endTime |-> IF ~Falsy(end.time) THEN end.time ELSE <<>>,
                  description |-> IF ~Falsy(current.description) THEN current.description ELSE <<>>,
                  color |-> defaultColor]
    IN IF isHoliday THEN event @@ [isHoliday |-> TRUE] ELSE event

\* a finalisation that sets the isHoliday field on every record
FinalizeEvent_AlwaysFlagged(current, opts, k) ==
    LET defaultColor == IF "defaultColor" \in DOMAIN opts THEN opts.defaultColor ELSE DEFAULT_EVENT_COLOR
        isHoliday == IF "isHoliday" \in DOMAIN opts THEN opts.isHoliday ELSE FALSE
        start == parseDTValue(current.dtstart)
        end0 == IF ~Falsy(current.dtend) THEN parseDTValue(current.dtend) ELSE start
        end == IF Falsy(start.time) /\ ~Falsy(end0.date) /\ end0.date # start.date
               THEN [end0 EXCEPT !.date = PreviousDayISO(end0.date)]
               ELSE end0
        event == [id |-> uuidv4(k),
                  title |-> IF ~Falsy(current.summary) THEN current.summary ELSE PLACEHOLDER_TITLE,
                  startDate |-> start.date,
                  endDate |-> IF ~Falsy(end.date) THEN end.date ELSE start.date,
                  date |-> start.date,
                  startTime |-> IF ~Falsy(start.time) THEN start.time ELSE <<>>,
                  endTime |-> IF ~Falsy(end.time) THEN end.time ELSE <<>>,
                  description |-> IF ~Falsy(current.description) THEN current.description ELSE <<>>,
                  color |-> defaultColor]
    IN event @@ [isHoliday |-> isHoliday]

\* a finalisation that leaves the end unset when there is no DTEND
FinalizeEvent_EmptyEnd(current, opts, k) ==
    LET defaultColor == IF "defaultColor" \in DOMAIN opts THEN opts.defaultColor ELSE DEFAULT_EVENT_COLOR
        isHoliday == IF "isHoliday" \in DOMAIN opts THEN opts.isHoliday ELSE FALSE
        start == parseDTValue(current.dtstart)
        end0 == IF ~Falsy(current.dtend) THEN parseDTValue(current.dtend) ELSE [date |-> <<>>, time |-> NULL]
        end == IF Falsy(start.time) /\ ~Falsy(end0.date) /\ end0.date # start.date
               THEN [end0 EXCEPT !.date = PreviousDayISO(end0.date)]
               ELSE end0
        event == [id |-> uuidv4(k),
                  title |-> IF ~Falsy(current.summary) THEN current.summary ELSE PLACEHOLDER_TITLE,
                  startDate |-> start.date,
                  endDate |-> IF ~Falsy(end.date) THEN end.date ELSE start.date,
                  date |-> start.date,
                  startTime |-> IF ~Falsy(start.time) THEN start.time ELSE <<>>,
                  endTime |-> IF ~Falsy(end.time) THEN end.time ELSE <<>>,
                  description |-> IF ~Falsy(current.description) THEN current.description ELSE <<>>,
                  color |-> defaultColor]
    IN IF isHoliday THEN event @@ [isHoliday |-> TRUE] ELSE event

\* the record built at END:VEVENT from the property bag (dtstart is truthy)
FinalizeEvent(current, opts, k) ==
    LET defaultColor == IF "defaultColor" \in DOMAIN opts THEN opts.defaultColor ELSE DEFAULT_EVENT_COLOR
        isHoliday == IF "isHoliday" \in DOMAIN opts THEN opts.isHoliday ELSE FALSE
        start == parseDTValue(current.dtstart)
        end0 == IF ~Falsy(current.dtend) THEN parseDTValue(current.dtend) ELSE start
        end == IF Falsy(start.time) /\ ~Falsy(end0.date) /\ end0.date # start.date
               THEN [end0 EXCEPT !.date = PreviousDayISO(end0.date)]
               ELSE end0
        event == [id |-> uuidv4(k),
                  title |-> IF ~Falsy(current.summary) THEN current.summary ELSE PLACEHOLDER_TITLE,
                  startDate |-> start.date,
                  endDate |-> IF ~Falsy(end.date) THEN end.date ELSE start.date,
                  date |-> start.date,
                  startTime |-> IF ~Falsy(start.time) THEN start.time ELSE <<>>,
                  endTime |-> IF ~Falsy(end.time) THEN end.time ELSE <<>>,
                  description |-> IF ~Falsy(current.description) THEN current.description ELSE <<>>,
                  color |-> defaultColor]
    IN IF isHoliday THEN event @@ [isHoliday |-> TRUE] ELSE event

\* a switch that also takes the UID of the source, as the description
SetProperty_TakesUid(current, trimmed) ==
    LET colonIndex == IndexOf(trimmed, ":")
        key == ToUpperCase(Slice(trimmed, 0, colonIndex))
        value == Slice(trimmed, colonIndex + 1, Len(trimmed))
        baseProp == SplitOn(key, ";")[1]
    IN IF colonIndex = 0 - 1 THEN current
       ELSE IF baseProp = <<"D", "T", "S", "T", "A", "R", "T">> THEN [current EXCEPT !.dtstart = value]
       ELSE IF baseProp = <<"D", "T", "E", "N", "D">> THEN [current EXCEPT !.dtend = value]
       ELSE IF baseProp = <<"S", "U", "M", "M", "A", "R", "Y">> THEN [current EXCEPT !.summary = unescapeText(value)]
       ELSE IF baseProp = <<"D", "E", "S", "C", "R", "I", "P", "T", "I", "O", "N">>
            THEN [current EXCEPT !.description = unescapeText(value)]
       ELSE IF baseProp = <<"U", "I", "D">> THEN [current EXCEPT !.description = value]
       ELSE current

\* the switch on the base property name of a line inside a block
\* a property switch on the whole key, parameters included
SetProperty_WholeKey(current, trimmed) ==
    LET colonIndex == IndexOf(trimmed, ":")
        key == ToUpperCase(Slice(trimmed, 0, colonIndex))
        value == Slice(trimmed, colonIndex + 1, Len(trimmed))
    IN IF colonIndex = 0 - 1 THEN current
       ELSE IF key = <<"D", "T", "S", "T", "A", "R", "T">> THEN [current EXCEPT !.dtstart = value]
       ELSE IF key = <<"D", "T", "E", "N", "D">> THEN [current EXCEPT !.dtend = value]
       ELSE IF key = <<"S", "U", "M", "M", "A", "R", "Y">> THEN [current EXCEPT !.summary = unescapeText(value)]
       ELSE IF key = <<"D", "E", "S", "C", "R", "I", "P", "T", "I", "O", "N">>
            THEN [current EXCEPT !.description = unescapeText(value)]
       ELSE current

SetProperty(current, trimmed) ==
    LET colonIndex == IndexOf(trimmed, ":")
        key == ToUpperCase(Slice(trimmed, 0, colonIndex))
        value == Slice(trimmed, colonIndex + 1, Len(trimmed))
        baseProp == SplitOn(key, ";")[1]
    IN IF colonIndex = 0 - 1 THEN current
       ELSE IF baseProp = <<"D", "T", "S", "T", "A", "R", "T">> THEN [current EXCEPT !.dtstart = value]
       ELSE IF baseProp = <<"D", "T", "E", "N", "D">> THEN [current EXCEPT !.dtend = value]
       ELSE IF baseProp = <<"S", "U", "M", "M", "A", "R", "Y">> THEN [current EXCEPT !.summary = unescapeText(value)]
       ELSE IF baseProp = <<"D", "E", "S", "C", "R", "I", "P", "T", "I", "O", "N">>
            THEN [current EXCEPT !.description = unescapeText(value)]
       ELSE current

\* a loop body that lacks `if (!inEvent) continue`
ParseLine_NoInEventGuard(st, ln, opts) ==
    LET trimmed == Trim(ln)
    IN IF trimmed = L_BEGIN_VEVENT
       THEN [st EXCEPT !.inEvent = TRUE, !.current = EmptyBag]
       ELSE IF trimmed = L_END_VEVENT
       THEN IF ~Falsy(st.current.dtstart)
            THEN [st EXCEPT !.inEvent = FALSE,
                            !.events = Append(st.events, FinalizeEvent(st.current, opts, st.uuid)),
                            !.uuid = st.uuid + 1]
            ELSE [st EXCEPT !.inEvent = FALSE]
       ELSE [st EXCEPT !.current = SetProperty(st.current, trimmed)]

\* a loop body that keeps the property bag of the previous block at BEGIN:VEVENT
ParseLine_StaleBag(st, ln, opts) ==
    LET trimmed == Trim(ln)
    IN IF trimmed = L_BEGIN_VEVENT
       THEN [st EXCEPT !.inEvent = TRUE]
       ELSE IF trimmed = L_END_VEVENT
       THEN IF ~Falsy(st.current.dtstart)
            THEN [st EXCEPT !.inEvent = FALSE,
                            !.events = Append(st.events, FinalizeEvent(st.current, opts, st.uuid)),
                            !.uuid = st.uuid + 1]
            ELSE [st EXCEPT !.inEvent = FALSE]
       ELSE IF ~st.inEvent THEN st
       ELSE [st EXCEPT !.current = SetProperty(st.current, trimmed)]

\* one iteration of the loop over the lines; st holds the loop's variables
ParseLine(st, ln, opts) ==
    LET trimmed == Trim(ln)
    IN IF trimmed = L_BEGIN_VEVENT
       THEN [st EXCEPT !.inEvent = TRUE, !.current = EmptyBag]
       ELSE IF trimmed = L_END_VEVENT
       THEN IF ~Falsy(st.current.dtstart)
            THEN [st EXCEPT !.inEvent = FALSE,
                            !.events = Append(st.events, FinalizeEvent(st.current, opts, st.uuid)),
                            !.uuid = st.uuid + 1]
            ELSE [st EXCEPT !.inEvent = FALSE]
       ELSE IF ~st.inEvent THEN st
       ELSE [st EXCEPT !.current = SetProperty(st.current, trimmed)]

RECURSIVE ParseLines(_, _, _, _)
ParseLines(st, lines, i, opts) ==
    IF i > Len(lines) THEN st
    ELSE ParseLines(ParseLine(st, lines[i], opts), lines, i + 1, opts)

\* parseICS(icsContent, options), the ambient generator having handed out uuid0 ids
parseICS(icsContent, opts, uuid0) ==
    LET lines == SplitLines(unfold(icsContent))
    IN ParseLines([events |-> <<>>, inEvent |-> FALSE, current |-> EmptyBag, uuid |-> uuid0],
                  lines, 1, opts).events

-----------------------------------------------------------------------------
(* The input space.                                                        *)

RECURSIVE TextsOver(_, _)
TextsOver(alphabet, n) ==
    IF n = 0 THEN {<<>>}
    ELSE LET shorter == TextsOver(alphabet, n - 1)
         IN shorter \cup {Append(t, c) : t \in shorter, c \in alphabet}

\* format(date, 'yyyy-MM-dd')
ISO(y, m, d) ==
    Pad("0", 4 - Len(NatToStr(y))) \o NatToStr(y) \o <<"-">> \o PadStart2(NatToStr(m)) \o <<"-">> \o PadStart2(NatToStr(d))

Years == {2000, 2024, 2026, 2100}

\* the first, a middle and the last days of every month of Years
Days == {dt \in [y : Years, m : 1..12, d : {1, 15, 27, 28, 29, 30, 31}] : dt.d <= DaysInMonth(dt.y, dt.m)}

StartDays == {[y |-> 2000, m |-> 2, d |-> 28], [y |-> 2024, m |-> 2, d |-> 29],
              [y |-> 2026, m |-> 7, d |-> 1], [y |-> 2026, m |-> 12, d |-> 31],
              [y |-> 2100, m |-> 2, d |-> 28]}

Before(a, b) == a.y < b.y \/ (a.y = b.y /\ (a.m < b.m \/ (a.m = b.m /\ a.d <= b.d)))

IsoOf(dt) == ISO(dt.y, dt.m, dt.d)

Times == {<<"0", "0", ":", "0", "0">>, <<"0", "9", ":", "3", "0">>, <<"1", "4", ":", "0", "0">>,
          <<"2", "2", ":", "5", "9">>, <<"2", "3", ":", "3", "0">>}

TextAlphabet == {";", ",", BS, LF, " ", "n", "x"}

ShortTexts == TextsOver(TextAlphabet, MaxTextLen)

T_Quick == <<"Q", "u", "i", "c", "k">>
T_Notes == <<"n", "o", "t", "e", "s">>

LongTexts == {Pad("x", 80), Pad("x", 70) \o <<";", " ", BS, "n">> \o Pad("y", 90),
              Pad("é", 40), Pad("é", 80)}

EventRecord(id, title, startDate, endDate, startTime, endTime, description) ==
    [id |-> id, title |-> title, startDate |-> startDate, endDate |-> endDate,
     date |-> startDate, startTime |-> startTime, endTime |-> endTime,
     description |-> description, color |-> DEFAULT_EVENT_COLOR]

Id1 == <<"e", "v", "t", "-", "0", "0", "1">>
Id2 == <<"e", "v", "t", "-", "0", "0", "2">>

AllDayRecords ==
    {EventRecord(Id1, T_Quick, IsoOf(p[1]), IsoOf(p[2]), <<>>, <<>>, <<>>) :
        p \in {q \in StartDays \X Days : Before(q[1], q[2])}}
    \cup {EventRecord(Id1, T_Quick, IsoOf(e), IsoOf(e), <<>>, et, T_Notes) :
        e \in Days, et \in {<<>>, <<"1", "0", ":", "3", "0">>}}

TimedRecords ==
    {EventRecord(Id2, T_Quick, IsoOf(p[1]), IsoOf(p[2]), st, et, <<>>) :
        p \in {q \in StartDays \X StartDays : Before(q[1], q[2])}, st \in Times, et \in Times \cup {<<>>}}

TextRecords ==
    {EventRecord(Id2, t, IsoOf(s), IsoOf(s), <<"0", "9", ":", "3", "0">>, <<"1", "0", ":", "3", "0">>, T_Notes) :
        s \in {[y |-> 2026, m |-> 3, d |-> 15]}, t \in ShortTexts \cup LongTexts}
    \cup {EventRecord(Id2, T_Quick, IsoOf(s), IsoOf(s), <<"0", "9", ":", "3", "0">>, <<"1", "0", ":", "3", "0">>, t) :
        s \in {[y |-> 2026, m |-> 3, d |-> 15]}, t \in ShortTexts \cup LongTexts}

AllDayTextRecords ==
    {EventRecord(Id1, t, ISO(2026, 7, 1), ISO(2026, 7, 5), <<>>, <<>>, d) :
        t \in ShortTexts \cup LongTexts, d \in {<<>>, T_Notes}}

ListPool ==
    {EventRecord(Id1, T_Quick, ISO(2026, 7, 1), ISO(2026, 7, 5), <<>>, <<>>, T_Notes),
     EventRecord(Id2, T_Notes, ISO(2026, 3, 15), ISO(2026, 3, 15), <<"1", "4", ":", "0", "0">>, <<>>, <<>>)}

RECURSIVE ListsOver(_, _)
ListsOver(pool, n) ==
    IF n = 0 THEN {<<>>}
    ELSE LET shorter == ListsOver(pool, n - 1)
         IN shorter \cup {Append(l, r) : l \in shorter, r \in pool}

EventLists ==
    {<<r>> : r \in AllDayRecords \cup TimedRecords \cup TextRecords \cup AllDayTextRecords}
    \cup ListsOver(ListPool, MaxEvents)

Clocks == {ISO(2026, 11, 3), ISO(2027, 1, 1)}

-----------------------------------------------------------------------------
(* The export/import pipeline.                                             *)

Idle ==
    /\ text = <<>> /\ escaped = <<>> /\ unescaped = <<>>
    /\ line = <<>> /\ folded = <<>> /\ unfolded = <<>>
    /\ call = <<>> /\ swipe = <<>> /\ loop = <<>>

Init ==
    /\ pc = "ready"
    /\ clock \in Clocks
    /\ uuidNext = 0
    /\ events \in EventLists
    /\ blocks = <<>>
    /\ ics = <<>>
    /\ options = <<>>
    /\ imported = <<>>
    /\ Idle

\* an export that writes the defaulted endDate back into its records
Export_FillsEndDate ==
    /\ pc = "ready"
    /\ ics' = eventsToICS(events, clock)
    /\ events' = [k \in 1..Len(events) |->
                    [events[k] EXCEPT !.endDate = IF Falsy(@) THEN events[k].startDate ELSE @]]
    /\ pc' = "exported"
    /\ UNCHANGED <<clock, uuidNext, blocks, options, imported,
                   text, escaped, unescaped, line, folded, unfolded, call, swipe, loop>>

\* exportAllEvents / exportEvent: the document offered for download
Export ==
    /\ pc = "ready"
    /\ ics' = eventsToICS(events, clock)
    /\ pc' = "exported"
    /\ UNCHANGED <<clock, uuidNext, events, blocks, options, imported,
                   text, escaped, unescaped, line, folded, unfolded, call, swipe, loop>>

\* parseICS on the document text
Import ==
    /\ pc \in {"exported", "loaded"}
    /\ imported' = parseICS(ics, options, uuidNext)
    /\ uuidNext' = uuidNext + Len(imported')
    /\ pc' = "imported"
    /\ UNCHANGED <<clock, events, blocks, ics, options,
                   text, escaped, unescaped, line, folded, unfolded, call, swipe, loop>>

Next == Export \/ Import

Spec == Init /\ [][Next]_vars

-----------------------------------------------------------------------------
(* Hand-written documents: the import boundary and the holiday feed.       *)

V_20260501 == toICSDate(ISO(2026, 5, 1))
V_20260101 == toICSDate(ISO(2026, 1, 1))
V_20260103 == toICSDate(ISO(2026, 1, 3))
V_0930 == toICSDateTime(ISO(2026, 3, 15), <<"0", "9", ":", "3", "0">>)
V_1030 == toICSDateTime(ISO(2026, 3, 15), <<"1", "0", ":", "3", "0">>)
V_1400Z == toICSDateTime(ISO(2026, 3, 15), <<"1", "4", ":", "0", "0">>) \o <<"Z">>

\* A VEVENT body: its lines, the indices of its noise lines (unknown property,
\* no colon), the kind of its DTSTART and the text of its SUMMARY.
BodyA == [lines |-> <<P_SUMMARY \o <<"A">>, P_DTSTART_DATE \o V_20260501>>,
          noise |-> {}, start |-> "date", title |-> <<"A">>]
BodyB == [lines |-> <<P_SUMMARY \o <<"B">>, P_DTSTART \o V_0930, P_DTEND \o V_1030, P_DESCRIPTION \o <<"d">>>>,
          noise |-> {}, start |-> "datetime", title |-> <<"B">>]
BodyC == [lines |-> <<P_SUMMARY \o <<"C">>>>,
          noise |-> {}, start |-> "none", title |-> <<"C">>]
BodyD == [lines |-> <<P_DTSTART, P_SUMMARY \o <<"D">>>>,
          noise |-> {}, start |-> "empty", title |-> <<"D">>]
BodyE == [lines |-> <<P_DTSTART \o <<"2", "0", "2", "6">>, P_SUMMARY \o <<"E">>>>,
          noise |-> {}, start |-> "garbage", title |-> <<"E">>]
BodyF == [lines |-> <<<<"X", "-", "W", "R", ";", "P", "=", "1", ":", "z", ":", "z">>,
                      <<"n", "o", "c", "o", "l", "o", "n">>,
                      <<"d", "t", "s", "t", "a", "r", "t", ";", "v", "a", "l", "u", "e", "=", "d", "a", "t", "e", ":">> \o V_20260101,
                      <<"U", "I", "D", ":", "s", "r", "c", "-", "1">>,
                      P_DTEND_DATE \o V_20260103,
                      P_SUMMARY \o <<"F">>>>,
          noise |-> {1, 2, 4}, start |-> "date", title |-> <<"F">>]
BodyG == [lines |-> <<P_SUMMARY \o <<"G">>, P_DTSTART \o V_1400Z, P_DTEND \o <<"b", "a", "d">>>>,
          noise |-> {}, start |-> "datetime", title |-> <<"G">>]
BodyH == [lines |-> <<>>, noise |-> {}, start |-> "none", title |-> <<>>]

Bodies == {BodyA, BodyB, BodyC, BodyD, BodyE, BodyF, BodyG, BodyH}

L_NOT_ICS == <<"n", "o", "t", " ", "a", "n", " ", "i", "c", "s", " ", "f", "i", "l", "e">>

\* lines in front of the first block
Preambles == {<<>>, <<L_NOT_ICS>>, <<P_DTSTART_DATE \o V_20260101, P_SUMMARY \o <<"S">>, L_END_VEVENT>>}

Framings == {[wrap |-> TRUE, eol |-> CRLF], [wrap |-> TRUE, eol |-> <<LF>>], [wrap |-> FALSE, eol |-> CRLF]}

Sources == [frame : Framings, pre : Preambles, bodies : ListsOver(Bodies, MaxBlocks)]

BlockLines(body) == <<L_BEGIN_VEVENT>> \o body.lines \o <<L_END_VEVENT>>

\* the text of a hand-written document (the tests' makeICS)
Render(src) ==
    LET inner == src.pre \o Flatten([k \in 1..Len(src.bodies) |-> BlockLines(src.bodies[k])])
        all == IF src.frame.wrap
               THEN <<CalendarHeader[1], CalendarHeader[2]>> \o inner \o <<L_END_VCALENDAR>>
               ELSE inner
    IN Join(all, src.frame.eol)

OptionSets == {<<>>, [defaultColor |-> "#FF0000", isHoliday |-> TRUE]}

InitParse ==
    /\ pc = "loaded"
    /\ clock \in {ISO(2026, 11, 3)}
    /\ uuidNext = 0
    /\ events = <<>>
    /\ blocks \in Sources
    /\ ics = Render(blocks)
    /\ options \in OptionSets
    /\ imported = <<>>
    /\ Idle

NextParse == Import

SpecParse == InitParse /\ [][NextParse]_vars

-----------------------------------------------------------------------------
(* Documents of one block, over the shapes of its DTSTART and DTEND.       *)

\* the days a boundary of a hand-written block names: around the start of a
\* year, the end of February of a leap and of a common year, and month ends
BoundaryDays ==
    {[y |-> 2025, m |-> 12, d |-> 31], [y |-> 2026, m |-> 1, d |-> 1], [y |-> 2026, m |-> 1, d |-> 2],
     [y |-> 2024, m |-> 2, d |-> 29], [y |-> 2024, m |-> 3, d |-> 1],
     [y |-> 2026, m |-> 2, d |-> 28], [y |-> 2026, m |-> 3, d |-> 1],
     [y |-> 2026, m |-> 4, d |-> 30], [y |-> 2026, m |-> 5, d |-> 1], [y |-> 2026, m |-> 5, d |-> 31],
     [y |-> 2026, m |-> 7, d |-> 1], [y |-> 2026, m |-> 7, d |-> 5]}

BoundaryTimes == {<<"0", "0", ":", "0", "0">>, <<"0", "9", ":", "3", "0">>, <<"2", "3", ":", "3", "0">>}

\* a boundary: a day and a time, the time NULL for a date-only value
Boundaries == [day : BoundaryDays, time : BoundaryTimes \cup {NULL}]

\* the value text of a boundary, as the exporter writes it
BoundaryValue(b) ==
    IF b.time = NULL THEN toICSDate(IsoOf(b.day)) ELSE toICSDateTime(IsoOf(b.day), b.time)

T_Span == <<"S", "p", "a", "n">>

\* a block with a DTSTART and the DTEND lines of dtend (none or one)
DateBody(dtstart, dtend, zulu) ==
    [lines |-> <<P_SUMMARY \o T_Span,
                 (IF dtstart.time = NULL THEN P_DTSTART_DATE ELSE P_DTSTART)
                    \o BoundaryValue(dtstart) \o (IF zulu /\ dtstart.time # NULL THEN <<"Z">> ELSE <<>>)>>
               \o [k \in 1..Len(dtend) |->
                     (IF dtend[k].time = NULL THEN P_DTEND_DATE ELSE P_DTEND) \o BoundaryValue(dtend[k])],
     noise |-> {},
     start |-> IF dtstart.time = NULL THEN "date" ELSE "datetime",
     title |-> T_Span,
     dtstart |-> dtstart,
     dtend |-> dtend]

DateSources ==
    {[frame |-> [wrap |-> TRUE, eol |-> CRLF], pre |-> <<>>, bodies |-> <<DateBody(s, e, z)>>] :
        s \in Boundaries, e \in {<<>>} \cup {<<b>> : b \in Boundaries}, z \in BOOLEAN}

InitDates ==
    /\ pc = "loaded"
    /\ clock \in {ISO(2026, 11, 3)}
    /\ uuidNext = 0
    /\ events = <<>>
    /\ blocks \in DateSources
    /\ ics = Render(blocks)
    /\ options = <<>>
    /\ imported = <<>>
    /\ Idle

NextDates == Import

SpecDates == InitDates /\ [][NextDates]_vars

-----------------------------------------------------------------------------
(* A session: the same list exported on several days, the document         *)
(* decoded several times.                                                  *)

T_Long == Pad("x", 70) \o <<";", " ", BS, "n", LF>> \o Pad("y", 90)

\* records that lack title, description, endDate, endTime or startTime: a
\* missing property reads as undefined
SparseRecords ==
    {[id |-> id, title |-> t, startDate |-> ISO(2026, 7, 1), endDate |-> ed, date |-> dt,
      startTime |-> st, endTime |-> et, description |-> d, color |-> UNDEF] :
        id \in {Id1}, t \in {UNDEF, <<>>, T_Quick},
        ed \in {UNDEF, ISO(2026, 7, 5)}, dt \in {UNDEF, ISO(2026, 7, 1)},
        st \in {UNDEF, <<"0", "9", ":", "3", "0">>}, et \in {UNDEF, <<"1", "0", ":", "3", "0">>},
        d \in {UNDEF, <<>>, T_Notes}}

\* records that share an id and differ elsewhere, and records of long texts
SessionPool ==
    {EventRecord(Id1, T_Quick, ISO(2026, 7, 1), ISO(2026, 7, 5), <<>>, <<>>, T_Notes),
     EventRecord(Id1, T_Long, ISO(2026, 12, 31), ISO(2026, 12, 31), <<"1", "4", ":", "0", "0">>, <<>>, <<>>),
     EventRecord(Id2, T_Notes, ISO(2026, 3, 15), ISO(2026, 3, 15), <<"0", "9", ":", "3", "0">>,
                 <<"1", "0", ":", "3", "0">>, T_Long)}

SessionLists == {<<r>> : r \in SparseRecords} \cup ListsOver(SessionPool, MaxEvents)

InitSession ==
    /\ pc = "ready"
    /\ clock = ISO(2026, 11, 3)
    /\ uuidNext = 0
    /\ events \in SessionLists
    /\ blocks = <<>>
    /\ ics = <<>>
    /\ options \in {<<>>, [isHoliday |-> TRUE]}
    /\ imported = <<>>
    /\ Idle

\* exportAllEvents once more, the same day or a later one
ExportAgain ==
    /\ pc = "exported"
    /\ \E today \in Clocks :
          /\ DigitsToNat(toICSDate(today)) >= DigitsToNat(toICSDate(clock))
          /\ clock' = today
          /\ ics' = eventsToICS(events, today)
    /\ pc' = "exported"
    /\ UNCHANGED <<uuidNext, events, blocks, options, imported,
                   text, escaped, unescaped, line, folded, unfolded, call, swipe, loop>>

\* parseICS once more on the same document
ImportAgain ==
    /\ pc = "imported"
    /\ uuidNext < MaxIds
    /\ imported' = parseICS(ics, options, uuidNext)
    /\ uuidNext' = uuidNext + Len(imported')
    /\ UNCHANGED <<pc, clock, events, blocks, ics, options,
                   text, escaped, unescaped, line, folded, unfolded, call, swipe, loop>>

NextSession == Export \/ Import \/ ExportAgain \/ ImportAgain

SpecSession == InitSession /\ [][NextSession]_vars

-----------------------------------------------------------------------------
(* Documents decoded under every shape of the options object.              *)

AllOptionSets ==
    OptionSets \cup {[defaultColor |-> "#FF0000"], [isHoliday |-> TRUE],
                     [defaultColor |-> "#FF0000", isHoliday |-> FALSE]}

AugmentSources == [frame : Framings, pre : {<<>>}, bodies : ListsOver({BodyA, BodyB, BodyC, BodyF}, MaxBlocks)]

InitAugment ==
    /\ pc = "loaded"
    /\ clock \in {ISO(2026, 11, 3)}
    /\ uuidNext = 0
    /\ events = <<>>
    /\ blocks \in AugmentSources
    /\ ics = Render(blocks)
    /\ options \in AllOptionSets
    /\ imported = <<>>
    /\ Idle

NextAugment == Import \/ ImportAgain

SpecAugment == InitAugment /\ [][NextAugment]_vars

-----------------------------------------------------------------------------
(* Documents put together from blocks and from lines outside of blocks.    *)

\* closed blocks, a block left open, a stray END:VEVENT, stray property lines
Segments ==
    {<<L_BEGIN_VEVENT, P_SUMMARY \o <<"A">>, P_DTSTART_DATE \o V_20260501,
       P_DTEND_DATE \o toICSDate(ISO(2026, 5, 3)), P_DESCRIPTION \o <<"d", "a">>, L_END_VEVENT>>,
     <<L_BEGIN_VEVENT, P_DTSTART \o V_0930, P_SUMMARY \o <<"B">>, L_END_VEVENT>>,
     <<L_BEGIN_VEVENT, P_SUMMARY \o <<"C">>, L_END_VEVENT>>,
     <<L_BEGIN_VEVENT, P_DESCRIPTION \o <<"o", "p", "e", "n">>, P_DTEND \o V_1030>>,
     <<L_END_VEVENT>>,
     <<P_DTEND_DATE \o V_20260103, P_DESCRIPTION \o <<"o", "u", "t">>, P_DTSTART_DATE \o V_20260101>>}

SegmentDocs == [segments : ListsOver(Segments, MaxSegments)]

\* the text of a document of segments (the tests' makeICS wrapper)
RenderSegments(doc) ==
    Join(<<CalendarHeader[1], CalendarHeader[2]>> \o Flatten(doc.segments) \o <<L_END_VCALENDAR>>, CRLF)

InitBlocks ==
    /\ pc = "loaded"
    /\ clock \in {ISO(2026, 11, 3)}
    /\ uuidNext = 0
    /\ events = <<>>
    /\ blocks \in SegmentDocs
    /\ ics = RenderSegments(blocks)
    /\ options \in {<<>>}
    /\ imported = <<>>
    /\ Idle

NextBlocks == Import

SpecBlocks == InitBlocks /\ [][NextBlocks]_vars

-----------------------------------------------------------------------------
(* Records whose texts look like the structure of a document.              *)

\* line breaks, carriage returns and colons, the delimiters of a block, leading
\* spaces, and runs that put a carriage return or an escape pair on the fold
HostileTexts ==
    {L_BEGIN_VEVENT, L_END_VEVENT,
     <<LF>> \o L_END_VEVENT, <<CR, LF>> \o L_BEGIN_VEVENT \o <<CR, LF>>, <<CR>> \o L_END_VEVENT \o <<CR>>,
     <<" ", " ">> \o P_DTSTART \o <<"x">>, <<LF, " ">> \o P_DTSTART_DATE \o <<"1", "9", "9", "9", "0", "1", "0", "1">>}
    \cup {Pad("x", k) \o sep \o L_END_VEVENT \o <<LF>> \o L_BEGIN_VEVENT :
            k \in {65, 66, 67}, sep \in {<<CR>>, <<LF>>, <<CR, LF>>, <<LF, " ">>}}

HostileRecords ==
    {EventRecord(Id1, t, ISO(2026, 7, 1), ISO(2026, 7, 5), <<>>, <<>>, d) : t, d \in HostileTexts}

HostilePool ==
    {EventRecord(Id1, <<LF>> \o L_END_VEVENT, ISO(2026, 7, 1), ISO(2026, 7, 5), <<>>, <<>>, L_BEGIN_VEVENT),
     EventRecord(Id2, Pad("x", 66) \o <<CR, LF>> \o L_END_VEVENT, ISO(2026, 3, 15), ISO(2026, 3, 15),
                 <<"0", "9", ":", "3", "0">>, <<>>, <<CR, LF, " ">> \o L_BEGIN_VEVENT)}

InitHostile ==
    /\ pc = "ready"
    /\ clock \in {ISO(2026, 11, 3)}
    /\ uuidNext = 0
    /\ events \in {<<r>> : r \in HostileRecords} \cup ListsOver(HostilePool, MaxEvents)
    /\ blocks = <<>>
    /\ ics = <<>>
    /\ options = <<>>
    /\ imported = <<>>
    /\ Idle

NextHostile == Export \/ Import

SpecHostile == InitHostile /\ [][NextHostile]_vars

-----------------------------------------------------------------------------
(* Text escaping on its own.                                               *)

EscAlphabet == {";", ",", BS, LF, "n", "N", "x"}

InitText ==
    /\ pc = "text"
    /\ clock \in {ISO(2026, 11, 3)}
    /\ uuidNext = 0
    /\ events = <<>> /\ blocks = <<>> /\ ics = <<>> /\ options = <<>> /\ imported = <<>>
    /\ text \in TextsOver(EscAlphabet, MaxEscLen)
    /\ escaped = <<>> /\ unescaped = <<>>
    /\ line = <<>> /\ folded = <<>> /\ unfolded = <<>>
    /\ call = <<>> /\ swipe = <<>> /\ loop = <<>>

Escape ==
    /\ pc = "text"
    /\ escaped' = escapeText(text)
    /\ pc' = "escaped"
    /\ UNCHANGED <<clock, uuidNext, events, blocks, ics, options, imported,
                   text, unescaped, line, folded, unfolded, call, swipe, loop>>

Unescape ==
    /\ pc = "escaped"
    /\ unescaped' = unescapeText(escaped)
    /\ pc' = "unescaped"
    /\ UNCHANGED <<clock, uuidNext, events, blocks, ics, options, imported,
                   text, escaped, line, folded, unfolded, call, swipe, loop>>

NextText == Escape \/ Unescape

SpecText == InitText /\ [][NextText]_vars

-----------------------------------------------------------------------------
(* Line folding on its own.                                                *)

FoldAlphabet == {"b", " ", BS, ";", TAB}

\* lengths that put the free tail before, on and after each split position
PadLengths == {0, 40} \cup 72..76 \cup 146..150 \cup 220..224

LogicalLines ==
    {Pad("a", k) \o t \o Pad("c", j) :
        k \in PadLengths, t \in TextsOver(FoldAlphabet, MaxTail), j \in {0, 3}}

InitFold ==
    /\ pc = "line"
    /\ clock \in {ISO(2026, 11, 3)}
    /\ uuidNext = 0
    /\ events = <<>> /\ blocks = <<>> /\ ics = <<>> /\ options = <<>> /\ imported = <<>>
    /\ text = <<>> /\ escaped = <<>> /\ unescaped = <<>>
    /\ line \in LogicalLines
    /\ folded = <<>> /\ unfolded = <<>>
    /\ call = <<>> /\ swipe = <<>> /\ loop = <<>>

Fold ==
    /\ pc = "line"
    /\ folded' = foldLine(line)
    /\ pc' = "folded"
    /\ UNCHANGED <<clock, uuidNext, events, blocks, ics, options, imported,
                   text, escaped, unescaped, line, unfolded, call, swipe, loop>>

Unfold ==
    /\ pc = "folded"
    /\ unfolded' = unfold(folded)
    /\ pc' = "unfolded"
    /\ UNCHANGED <<clock, uuidNext, events, blocks, ics, options, imported,
                   text, escaped, unescaped, line, folded, call, swipe, loop>>

NextFold == Fold \/ Unfold

SpecFold == InitFold /\ [][NextFold]_vars

-----------------------------------------------------------------------------
(* Properties.                                                             *)

StartsWith(l, prefix) == Len(l) >= Len(prefix) /\ SubSeq(l, 1, Len(prefix)) = prefix

\* the physical lines of a document: the text between consecutive CRLF
PhysicalLines(doc) == Split(doc, << <<{CR}, {LF}>> >>)

\* the physical lines of the exported document that start with a prefix
ExportedLines(prefix) ==
    LET ls == PhysicalLines(ics)
    IN {l \in {ls[i] : i \in 1..Len(ls)} : StartsWith(l, prefix)}

W_DTSTART == <<"D", "T", "S", "T", "A", "R", "T">>
W_DTEND == <<"D", "T", "E", "N", "D">>

\* days elapsed up to a day of the proleptic Gregorian calendar
DayNumber(y, m, d) ==
    LET yy == IF m <= 2 THEN y - 1 ELSE y
        mm == IF m <= 2 THEN m + 12 ELSE m
    IN 365 * yy + (yy \div 4) - (yy \div 100) + (yy \div 400) + ((153 * (mm - 3) + 2) \div 5) + d

\* an eight-digit value names a day of the calendar
IsCalendarDay8(v) ==
    /\ Len(v) = 8
    /\ \A i \in 1..8 : IsDigit(v[i])
    /\ LET y == DigitsToNat(SubSeq(v, 1, 4))
           m == DigitsToNat(SubSeq(v, 5, 6))
           d == DigitsToNat(SubSeq(v, 7, 8))
       IN /\ m \in 1..12
          /\ d >= 1
          /\ DayNumber(y, m, d) < (IF m = 12 THEN DayNumber(y + 1, 1, 1) ELSE DayNumber(y, m + 1, 1))

DayNumber8(v) == DayNumber(DigitsToNat(SubSeq(v, 1, 4)), DigitsToNat(SubSeq(v, 5, 6)), DigitsToNat(SubSeq(v, 7, 8)))

DayNumberISO(iso) == DayNumber(DigitsToNat(SubSeq(iso, 1, 4)), DigitsToNat(SubSeq(iso, 6, 7)), DigitsToNat(SubSeq(iso, 9, 10)))

IsAllDay(r) == Falsy(r.startTime)

\* C1: round trip of a timed single-day record: the import of the export of
\* one record with startTime and endTime and endDate = startDate is exactly one
\* record with the same startDate, endDate, startTime, endTime, title and
\* description, whatever the title and description texts are.
C1_RoundTripTimed ==
    (/\ pc = "imported"
     /\ Len(events) = 1
     /\ ~Falsy(events[1].startTime) /\ ~Falsy(events[1].endTime)
     /\ events[1].endDate = events[1].startDate)
    => /\ Len(imported) = 1
       /\ imported[1].startDate = events[1].startDate
       /\ imported[1].endDate = events[1].endDate
       /\ imported[1].startTime = events[1].startTime
       /\ imported[1].endTime = events[1].endTime
       /\ imported[1].title = events[1].title
       /\ imported[1].description = events[1].description

\* C2: round trip of an all-day record: the import of the export of one
\* record without startTime, with endDate >= startDate, is one record with the
\* same startDate and the same inclusive endDate.
C2_RoundTripAllDay ==
    (pc = "imported" /\ Len(events) = 1 /\ IsAllDay(events[1]))
    => /\ Len(imported) = 1
       /\ imported[1].startDate = events[1].startDate
       /\ imported[1].endDate = events[1].endDate

C2_Witness ==
    /\ pc = "imported"
    /\ Len(events) = 1
    /\ IsAllDay(events[1])
    /\ events[1].startDate = ISO(2026, 7, 1)
    /\ events[1].endDate = ISO(2026, 12, 31)
    /\ Len(imported) = 1
    /\ imported[1].endDate = ISO(2026, 12, 31)

\* C3: exclusive end date: for every exported all-day record the document
\* has exactly one DTSTART line, DTSTART;VALUE=DATE: followed by the digits of
\* startDate, and exactly one DTEND line, DTEND;VALUE=DATE: followed by the
\* eight digits of the calendar day immediately after endDate.
C3_ExclusiveEnd ==
    (pc = "exported" /\ Len(events) = 1 /\ IsAllDay(events[1]))
    => LET starts == ExportedLines(W_DTSTART)
           ends == ExportedLines(W_DTEND)
           iso == events[1].startDate
       IN /\ starts = {P_DTSTART_DATE \o SubSeq(iso, 1, 4) \o SubSeq(iso, 6, 7) \o SubSeq(iso, 9, 10)}
          /\ Cardinality(ends) = 1
          /\ \A l \in ends :
                /\ StartsWith(l, P_DTEND_DATE)
                /\ IsCalendarDay8(Slice(l, Len(P_DTEND_DATE), Len(l)))
                /\ DayNumber8(Slice(l, Len(P_DTEND_DATE), Len(l))) = DayNumberISO(events[1].endDate) + 1

C3_Witness ==
    /\ pc = "exported"
    /\ Len(events) = 1
    /\ IsAllDay(events[1])
    /\ events[1].endDate = ISO(2026, 12, 31)
    /\ P_DTEND_DATE \o <<"2", "0", "2", "7", "0", "1", "0", "1">> \in ExportedLines(W_DTEND)

\* C4: escaping round trip: unescapeText(escapeText(text)) = text for every
\* text over ; , backslash, newline and letters.
C4_EscapeRoundTrip == pc = "unescaped" => unescaped = text

Utf8Length(s) == Len(s) + Cardinality({i \in 1..Len(s) : s[i] \in {"é", "É"}})

\* C6: line-length bound: every physical line of the exported document is at
\* most 75 octets long in UTF-8, multi-byte titles and descriptions included.
C6_LineOctets ==
    pc = "exported" =>
        LET ls == PhysicalLines(ics)
        IN \A i \in 1..Len(ls) : Utf8Length(ls[i]) <= 75

\* C9: default duration: for a timed record without endTime whose startTime
\* is HH:MM with HH <= 22, the DTEND line is DTEND: followed by the digits of
\* startDate, T, the two digits of HH + 1, the two digits of MM and 00, also
\* when endDate is later than startDate.
C9_DefaultDuration ==
    (/\ pc = "exported"
     /\ Len(events) = 1
     /\ ~Falsy(events[1].startTime) /\ Falsy(events[1].endTime)
     /\ DigitsToNat(SubSeq(events[1].startTime, 1, 2)) <= 22)
    => LET ends == ExportedLines(W_DTEND)
           iso == events[1].startDate
           st == events[1].startTime
       IN /\ Cardinality(ends) = 1
          /\ \A l \in ends :
                /\ Len(l) = Len(P_DTEND) + 15
                /\ StartsWith(l, P_DTEND \o SubSeq(iso, 1, 4) \o SubSeq(iso, 6, 7) \o SubSeq(iso, 9, 10) \o <<"T">>)
                /\ \A i \in 16..21 : IsDigit(l[i])
                /\ DigitsToNat(SubSeq(l, 16, 17)) = DigitsToNat(SubSeq(st, 1, 2)) + 1
                /\ DigitsToNat(SubSeq(l, 18, 19)) = DigitsToNat(SubSeq(st, 4, 5))
                /\ SubSeq(l, 20, 21) = <<"0", "0">>

C9_Witness ==
    /\ pc = "exported"
    /\ Len(events) = 1
    /\ events[1].startTime = <<"2", "2", ":", "5", "9">>
    /\ Falsy(events[1].endTime)
    /\ events[1].startDate = ISO(2026, 7, 1)
    /\ events[1].endDate = ISO(2026, 12, 31)
    /\ P_DTEND \o <<"2", "0", "2", "6", "0", "7", "0", "1", "T", "2", "3", "5", "9", "0", "0">> \in ExportedLines(W_DTEND)

\* the source of a hand-written document without its noise lines
WithoutNoise(src) ==
    [src EXCEPT
        !.pre = IF src.pre = <<L_NOT_ICS>> THEN <<>> ELSE src.pre,
        !.bodies = [k \in 1..Len(src.bodies) |->
                      LET b == src.bodies[k]
                      IN [b EXCEPT !.lines = Flatten([i \in 1..Len(b.lines) |->
                                                IF i \in b.noise THEN <<>> ELSE <<b.lines[i]>>]),
                                   !.noise = {}]]]

ImportedTitles == {imported[i].title : i \in 1..Len(imported)}

\* C7: tolerant decode: parseICS returns the empty list for a text without
\* VEVENT block (the empty text included); unknown property lines and lines
\* without a colon change nothing in what is returned; and a block whose
\* boundary value cannot be parsed does not keep the blocks with a well-formed
\* start boundary from being returned.
C7_TolerantDecode ==
    pc = "imported" =>
        /\ blocks.bodies = <<>> => imported = <<>>
        /\ imported = parseICS(Render(WithoutNoise(blocks)), options, 0)
        /\ \A k \in 1..Len(blocks.bodies) :
              blocks.bodies[k].start \in {"date", "datetime"} => blocks.bodies[k].title \in ImportedTitles
        /\ Len(imported) <= Len(blocks.bodies)

C7_Witness ==
    /\ pc = "imported"
    /\ blocks.bodies = <<BodyE, BodyF>>
    /\ blocks.pre = <<L_NOT_ICS>>
    /\ Len(imported) = 2
    /\ imported[2].title = <<"F">>
    /\ imported[2].startDate = ISO(2026, 1, 1)

\* A block has a start boundary when its DTSTART value has one of the
\* recognized shapes; a value of any other shape counts as absent.
HasStartBoundary(body) == body.start \in {"date", "datetime"}

\* C8: multiplicity: for a document of properly delimited blocks parseICS
\* returns exactly one record per block that has a start boundary, in source
\* order, and no record for a block without one.
C8_Multiplicity ==
    pc = "imported" =>
        LET withStart == SelectSeq(blocks.bodies, HasStartBoundary)
        IN /\ Len(imported) = Len(withStart)
           /\ \A i \in 1..Len(withStart) : imported[i].title = withStart[i].title

\* C10: every record returned by parseICS has a non-empty startDate, for
\* every input text, a DTSTART value of no recognized shape counting as absent.
C10_StartDateSet == pc = "imported" => \A i \in 1..Len(imported) : imported[i].startDate # <<>>

\* the one block of a document of SpecDates
TheBlock == blocks.bodies[1]

\* C11: every record returned by parseICS has endDate >= startDate, whatever
\* the DTEND value is relative to DTSTART, for all-day and for timed blocks.
C11_EndNotBeforeStart ==
    pc = "imported" =>
        \A i \in 1..Len(imported) :
            DayNumberISO(imported[i].endDate) >= DayNumberISO(imported[i].startDate)

IsISODay(t) ==
    /\ Len(t) = 10 /\ t[5] = "-" /\ t[8] = "-"
    /\ IsCalendarDay8(SubSeq(t, 1, 4) \o SubSeq(t, 6, 7) \o SubSeq(t, 9, 10))

DayOf(b) == DayNumber(b.day.y, b.day.m, b.day.d)

\* C19: exclusivity correction on decode: for a block whose DTSTART is
\* date-only, endDate is the day before DTEND's date when that date differs
\* from DTSTART's, and startDate when the two are equal or DTEND is absent;
\* for a block whose DTSTART has a time, endDate is DTEND's date unchanged.
C19_ExclusivityCorrection ==
    (pc = "imported" /\ Len(blocks.bodies) = 1 /\ "dtstart" \in DOMAIN TheBlock)
    => /\ Len(imported) = 1
       /\ imported[1].startDate = IsoOf(TheBlock.dtstart.day)
       /\ IsISODay(imported[1].endDate)
       /\ LET s == TheBlock.dtstart
              e == TheBlock.dtend
              endDate == imported[1].endDate
          IN IF e = <<>> THEN endDate = imported[1].startDate
             ELSE IF s.time = NULL
             THEN IF e[1].day # s.day
                  THEN DayNumberISO(endDate) = DayOf(e[1]) - 1
                  ELSE endDate = imported[1].startDate
             ELSE endDate = IsoOf(e[1].day)

C19_Witness ==
    /\ pc = "imported"
    /\ TheBlock.dtstart = [day |-> [y |-> 2025, m |-> 12, d |-> 31], time |-> NULL]
    /\ TheBlock.dtend = <<[day |-> [y |-> 2026, m |-> 1, d |-> 1], time |-> NULL]>>
    /\ imported[1].endDate = ISO(2025, 12, 31)

\* the k-th smallest element of a set of numbers
Nth(S, k) == CHOOSE x \in S : Cardinality({y \in S : y < x}) = k - 1

\* the logical lines of the exported document: continuations joined back, the
\* text after the last CRLF included
DocLines == PhysicalLines(unfold(ics))

LinesEqualTo(ls, l) == {i \in 1..Len(ls) : ls[i] = l}

\* the k-th run of lines from a BEGIN:VEVENT to the next END:VEVENT
VEventBlock(ls, k) == SubSeq(ls, Nth(LinesEqualTo(ls, L_BEGIN_VEVENT), k), Nth(LinesEqualTo(ls, L_END_VEVENT), k))

S_CALENDRIER == <<"@", "c", "a", "l", "e", "n", "d", "r", "i", "e", "r">>

OnlyIdAndDates(r) ==
    /\ r.title = UNDEF /\ r.description = UNDEF /\ r.startTime = UNDEF /\ r.endTime = UNDEF
    /\ r.startDate = ISO(2026, 7, 1)

\* C12: encoder permissiveness: a record that lacks title, description,
\* endDate or endTime is encoded into one VEVENT block; without title the
\* block holds the line SUMMARY: with an empty value; a record with only an
\* id and dates yields the complete all-day block.
C12_Permissive ==
    (pc = "exported" /\ Len(events) = 1)
    => LET ls == DocLines
           r == events[1]
       IN /\ Cardinality(LinesEqualTo(ls, L_BEGIN_VEVENT)) = 1
          /\ Cardinality(LinesEqualTo(ls, L_END_VEVENT)) = 1
          /\ Falsy(r.title) => Cardinality(LinesEqualTo(ls, P_SUMMARY)) = 1
          /\ OnlyIdAndDates(r) =>
                VEventBlock(ls, 1) =
                    <<L_BEGIN_VEVENT,
                      P_UID \o r.id \o S_CALENDRIER,
                      P_DTSTAMP \o toICSDate(clock) \o S_STAMP_TAIL,
                      P_DTSTART_DATE \o <<"2", "0", "2", "6", "0", "7", "0", "1">>,
                      P_DTEND_DATE \o (IF r.endDate = UNDEF
                                       THEN <<"2", "0", "2", "6", "0", "7", "0", "2">>
                                       ELSE <<"2", "0", "2", "6", "0", "7", "0", "6">>),
                      P_SUMMARY,
                      L_END_VEVENT>>

C12_Witness ==
    /\ pc = "exported"
    /\ Len(events) = 1
    /\ OnlyIdAndDates(events[1])
    /\ events[1].endDate = UNDEF /\ events[1].date = UNDEF
    /\ Cardinality(LinesEqualTo(DocLines, P_SUMMARY)) = 1

\* C13: document structure: the exported document is the five header lines,
\* then one VEVENT block per record in the order of the list, then
\* END:VCALENDAR; every line, the last included, ends with CRLF; the empty
\* list gives header and footer only.
C13_DocumentStructure ==
    pc = "exported" =>
        LET phys == PhysicalLines(ics)
            ls == DocLines
            n == Len(ls) - 1
            begins == LinesEqualTo(ls, L_BEGIN_VEVENT)
            ends == LinesEqualTo(ls, L_END_VEVENT)
        IN /\ phys[Len(phys)] = <<>>
           /\ \A i \in 1..Len(phys) : \A j \in 1..Len(phys[i]) : phys[i][j] \notin {CR, LF}
           /\ n >= 6
           /\ SubSeq(ls, 1, 5) = CalendarHeader
           /\ ls[n] = L_END_VCALENDAR
           /\ Cardinality(begins) = Len(events)
           /\ Cardinality(ends) = Len(events)
           /\ \A k \in 1..Len(events) :
                 /\ Nth(begins, k) = (IF k = 1 THEN 6 ELSE Nth(ends, k - 1) + 1)
                 /\ Nth(begins, k) < Nth(ends, k)
                 /\ ls[Nth(begins, k) + 1] = P_UID \o events[k].id \o S_CALENDRIER
           /\ n = (IF events = <<>> THEN 6 ELSE Nth(ends, Len(events)) + 1)

C13_Witness ==
    /\ pc = "exported"
    /\ Len(events) = 2
    /\ events[1].id = Id2 /\ events[2].id = Id1
    /\ DocLines[7] = P_UID \o Id2 \o S_CALENDRIER

IsUidLine(l) == StartsWith(l, P_UID)

\* the UID lines of a document, in order
UidLinesOf(doc) == SelectSeq(PhysicalLines(unfold(doc)), IsUidLine)

UidLines == UidLinesOf(ics)

\* C14: UID determinism: the UID line of a record is UID:<id>@calendrier, a
\* function of the id alone: two records of a list with the same id have the
\* same UID line whatever their other fields, and exporting the same list
\* once more, on the same or a later day, yields the same UID lines.
C14_UidDeterminism ==
    [][pc' = "exported" =>
         /\ UidLinesOf(ics') = [k \in 1..Len(events') |-> P_UID \o events'[k].id \o S_CALENDRIER]
         /\ pc = "exported" => UidLinesOf(ics') = UidLinesOf(ics)]_vars

C14_Witness ==
    /\ pc = "exported"
    /\ clock = ISO(2027, 1, 1)
    /\ Len(events) = 2
    /\ events[1].id = events[2].id /\ events[1] # events[2]
    /\ UidLines[1] = UidLines[2]

WithoutIds(records) == [k \in 1..Len(records) |-> [records[k] EXCEPT !.id = <<>>]]

C20_PropertyOrder ==
    pc = "exported" =>
        LET ls == DocLines
        IN /\ Cardinality(LinesEqualTo(ls, L_BEGIN_VEVENT)) = Len(events)
           /\ \A k \in 1..Len(events) :
                LET b == VEventBlock(ls, k)
                    described == ~Falsy(events[k].description)
                IN /\ Len(b) = (IF described THEN 8 ELSE 7)
                   /\ b[1] = L_BEGIN_VEVENT
                   /\ StartsWith(b[2], P_UID)
                   /\ StartsWith(b[3], P_DTSTAMP)
                   /\ StartsWith(b[4], P_DTSTART) \/ StartsWith(b[4], P_DTSTART_DATE)
                   /\ StartsWith(b[5], P_DTEND) \/ StartsWith(b[5], P_DTEND_DATE)
                   /\ StartsWith(b[6], P_SUMMARY)
                   /\ described => StartsWith(b[7], P_DESCRIPTION)
                   /\ b[Len(b)] = L_END_VEVENT

C20_Witness ==
    /\ pc = "exported"
    /\ Len(events) = 2
    /\ events[1].description = <<>> /\ events[2].description = T_Long
    /\ Len(VEventBlock(DocLines, 1)) = 7
    /\ Len(VEventBlock(DocLines, 2)) = 8

\* C18: default duration at hour rollover: for a timed record with no endTime
\* and startTime 23:MM the encoded end boundary is on startDate and its hour
\* field is a wall-clock hour in 00..23.
C18_HourRollover ==
    (/\ pc = "exported" /\ Len(events) = 1
     /\ ~Falsy(events[1].startTime) /\ Falsy(events[1].endTime)
     /\ SubSeq(events[1].startTime, 1, 2) = <<"2", "3">>)
    => LET ends == ExportedLines(P_DTEND)
       IN /\ Cardinality(ends) = 1
          /\ \A l \in ends :
                /\ Len(l) = 21
                /\ SubSeq(l, 7, 14) = toICSDate(events[1].startDate)
                /\ l[15] = "T"
                /\ IsDigit(l[16]) /\ IsDigit(l[17])
                /\ DigitsToNat(SubSeq(l, 16, 17)) \in 0..23

IsSourceUid(l) == Len(l) >= 4 /\ ToUpperCase(SubSeq(l, 1, 4)) = P_UID

\* the same document with the UID lines of its blocks taken out and, when
\* uid is not empty, one UID line put into every block
WithUid(src, uid) ==
    [src EXCEPT
        !.bodies = [k \in 1..Len(src.bodies) |->
                      LET b == src.bodies[k]
                          rest == SelectSeq(b.lines, LAMBDA l : ~IsSourceUid(l))
                      IN [b EXCEPT !.lines = IF uid = <<>> THEN rest ELSE <<P_UID \o uid>> \o rest,
                                   !.noise = {}]]]

SourceUids == {<<>>, Id1 \o S_CALENDRIER}

C17_Augmentation ==
    pc = "imported" =>
        \A i \in 1..Len(imported) :
            /\ imported[i].color = (IF "defaultColor" \in DOMAIN options
                                    THEN options.defaultColor ELSE DEFAULT_EVENT_COLOR)
            /\ ("isHoliday" \in DOMAIN imported[i])
                  <=> ("isHoliday" \in DOMAIN options /\ options.isHoliday = TRUE)
            /\ "isHoliday" \in DOMAIN imported[i] => imported[i].isHoliday = TRUE

C17_Witness ==
    /\ pc = "imported"
    /\ options = [defaultColor |-> "#FF0000", isHoliday |-> FALSE]
    /\ Len(imported) = 2
    /\ imported[1].color = "#FF0000" /\ imported[2].color = "#FF0000"
    /\ "isHoliday" \notin DOMAIN imported[1]

\* the digits of a date or a time, in order
Digits(t) == SelectSeq(t, IsDigit)

\* C21: the form of the boundaries is decided by startTime alone: with a
\* startTime DTSTART is startDate+startTime and, with an endTime, DTEND is
\* endDate+endTime, both local date-times YYYYMMDDTHHMM00 without VALUE=DATE
\* and without Z; without startTime both boundaries are date-only with
\* VALUE=DATE and the endTime of the record changes nothing in the document.
C21_BoundaryForm ==
    (pc = "exported" /\ Len(events) = 1)
    => LET r == events[1]
           starts == ExportedLines(W_DTSTART)
           ends == ExportedLines(W_DTEND)
       IN /\ Cardinality(starts) = 1 /\ Cardinality(ends) = 1
          /\ IF ~Falsy(r.startTime)
             THEN /\ starts = {P_DTSTART \o Digits(r.startDate) \o <<"T">> \o Digits(r.startTime) \o <<"0", "0">>}
                  /\ ~Falsy(r.endTime) =>
                        ends = {P_DTEND \o Digits(r.endDate) \o <<"T">> \o Digits(r.endTime) \o <<"0", "0">>}
                  /\ \A l \in ends : StartsWith(l, P_DTEND) /\ Len(l) = 21 /\ l[15] = "T"
             ELSE /\ starts = {P_DTSTART_DATE \o Digits(r.startDate)}
                  /\ \A l \in ends : StartsWith(l, P_DTEND_DATE) /\ Len(l) = 25
                  /\ ics = eventsToICS(<<[r EXCEPT !.endTime = <<>>]>>, clock)

C21_Witness ==
    /\ pc = "exported" /\ Len(events) = 1
    /\ Falsy(events[1].startTime) /\ ~Falsy(events[1].endTime)
    /\ ExportedLines(W_DTSTART) = {P_DTSTART_DATE \o toICSDate(events[1].startDate)}

\* C24: all-day records carry no end time: every record returned by parseICS
\* whose startTime is empty has an empty endTime, also when a date-only
\* DTSTART comes with a date-time DTEND.
C24_AllDayNoEndTime ==
    pc = "imported" =>
        \A i \in 1..Len(imported) : imported[i].startTime = <<>> => imported[i].endTime = <<>>

\* C29: a block whose DTSTART has a time and which has no DTEND gives a
\* record whose end is a copy of its start: endDate = startDate and
\* endTime = startTime.
C29_MissingEndCopiesStart ==
    (/\ pc = "imported" /\ Len(blocks.bodies) = 1 /\ "dtstart" \in DOMAIN TheBlock
     /\ TheBlock.dtstart.time # NULL /\ TheBlock.dtend = <<>>)
    => /\ Len(imported) = 1
       /\ imported[1].startDate = IsoOf(TheBlock.dtstart.day)
       /\ imported[1].startTime = TheBlock.dtstart.time
       /\ imported[1].endDate = imported[1].startDate
       /\ imported[1].endTime = imported[1].startTime

C29_Witness ==
    /\ pc = "imported"
    /\ TheBlock.dtstart = [day |-> [y |-> 2026, m |-> 5, d |-> 31], time |-> <<"2", "3", ":", "3", "0">>]
    /\ TheBlock.dtend = <<>>
    /\ imported[1].endTime = <<"2", "3", ":", "3", "0">>
    /\ imported[1].endDate = ISO(2026, 5, 31)

\* the lines of a document of segments, header and footer left out
SegmentLines == Flatten(blocks.segments)

IsNotEnd(l) == l # L_END_VEVENT

\* the block an END:VEVENT at line e closes or repeats: the lines from the
\* most recent BEGIN:VEVENT to the first END:VEVENT after it; none without BEGIN
BlockClosedAt(ls, e) ==
    LET begins == {b \in LinesEqualTo(ls, L_BEGIN_VEVENT) : b < e}
    IN IF begins = {} THEN <<>>
       ELSE LET b == CHOOSE x \in begins : \A y \in begins : y <= x
                e1 == CHOOSE x \in LinesEqualTo(ls, L_END_VEVENT) :
                         x > b /\ \A y \in LinesEqualTo(ls, L_END_VEVENT) : y > b => x <= y
            IN <<L_BEGIN_VEVENT>> \o SubSeq(ls, b + 1, e1 - 1) \o <<L_END_VEVENT>>

\* what the blocks of a document decode to, each taken on its own
DecodedAlone(ls) ==
    LET ends == LinesEqualTo(ls, L_END_VEVENT)
    IN Flatten([k \in 1..Cardinality(ends) |->
                  parseICS(Join(BlockClosedAt(ls, Nth(ends, k)), CRLF), options, 0)])

\* C25: fresh property bag per block: a record finalized at an END:VEVENT
\* holds only values of property lines between the most recent BEGIN:VEVENT
\* and that END:VEVENT: it is the record the block gives when decoded on its
\* own, whatever lines stand outside of blocks and whatever earlier blocks hold.
C25_FreshBag ==
    pc = "imported" => WithoutIds(imported) = WithoutIds(DecodedAlone(SegmentLines))

C25_Witness ==
    /\ pc = "imported"
    /\ Len(blocks.segments) = 3
    /\ Len(blocks.segments[1]) >= 2 /\ blocks.segments[1][2] = P_SUMMARY \o <<"A">>
    /\ Len(blocks.segments[2]) >= 1 /\ blocks.segments[2][1] = P_DTEND_DATE \o V_20260103
    /\ Len(blocks.segments[3]) >= 3 /\ blocks.segments[3][3] = P_SUMMARY \o <<"B">>
    /\ Len(imported) = 2
    /\ imported[2].description = <<>>
    /\ imported[2].endDate = ISO(2026, 3, 15)

\* C27: no record without an open block: an END:VEVENT met outside of a block
\* gives no record, so parseICS never returns more records than the text has
\* BEGIN:VEVENT lines.
C27_NoRecordWithoutBlock ==
    pc = "imported" => Len(imported) <= Cardinality(LinesEqualTo(SegmentLines, L_BEGIN_VEVENT))

\* C28: text cannot break the block structure: the import of the export of a
\* list of records has the length of the list and its i-th record has the
\* startDate of the i-th record, whatever titles and descriptions contain.
C28_TextKeepsStructure ==
    pc = "imported" =>
        /\ Len(imported) = Len(events)
        /\ \A i \in 1..Len(events) : imported[i].startDate = events[i].startDate

C28_Witness ==
    /\ pc = "imported"
    /\ Len(events) = 2
    /\ events[1].title = Pad("x", 66) \o <<CR, LF>> \o L_END_VEVENT
    /\ events[2].title = <<LF>> \o L_END_VEVENT
    /\ Len(imported) = 2
    /\ imported[2].startDate = ISO(2026, 7, 1)

-----------------------------------------------------------------------------
(* parseDTValue on its own: one boundary value in, one {date, time} out.  *)

V_Stamp == V_0930 \o <<"Z">>

\* values of every length around the two recognised shapes, with and without
\* the trailing Z, and values that only look like boundaries
DateValues ==
    {BoundaryValue(b) \o tail : b \in Boundaries, tail \in {<<>>, <<"Z">>, <<"Z", "Z">>}}
    \cup {Slice(V_Stamp, 0, k) : k \in 0..16}
    \cup {Slice(V_Stamp, 0, k) \o <<"Z">> : k \in 0..16}
    \cup {UNDEF, <<"T">>, <<"a", "b", "c", "d", "e", "f", "g", "h">>,
          <<"2", "0", "2", "6", "-", "0", "3", "-", "1", "5">>,
          <<"2", "0", "2", "6", "0", "3", "1", "5", "0", "0", "9", "3", "0", "0", "0">>,
          <<"2", "0", "2", "6", "0", "3", "1", "5", " ", "0", "9", "3", "0", "0", "0">>,
          <<"2", "0", "2", "6", "0", "3", "1", "5", "t", "0", "9", "3", "0", "0", "0">>,
          <<"2", "0", "2", "6", "T", "0", "3", "1", "5", "0", "9", "3", "0", "0", "0">>,
          <<"2", "0", "2", "6", "0", "3", "1", "5", "z">>,
          V_0930 \o <<".", "0", "0", "0", "Z">>,
          V_0930 \o <<"+", "0", "1", "0", "0">>}

InitBoundary ==
    /\ pc = "value"
    /\ clock \in {ISO(2026, 11, 3)}
    /\ uuidNext = 0
    /\ events = <<>> /\ blocks = <<>> /\ ics = <<>> /\ options = <<>> /\ imported = <<>>
    /\ text = <<>> /\ escaped = <<>> /\ unescaped = <<>>
    /\ line = <<>> /\ folded = <<>> /\ unfolded = <<>>
    /\ call \in [value : DateValues]
    /\ swipe = <<>> /\ loop = <<>>

ParseBoundary ==
    /\ pc = "value"
    /\ call' = [value |-> call.value, result |-> parseDTValue(call.value)]
    /\ pc' = "parsed"
    /\ UNCHANGED <<clock, uuidNext, events, blocks, ics, options, imported,
                   text, escaped, unescaped, line, folded, unfolded, swipe, loop>>

NextBoundary == ParseBoundary

SpecBoundary == InitBoundary /\ [][NextBoundary]_vars

\* the characters a..b (0-based, inclusive) of a text
Chars(s, a, b) == [i \in 1..(b - a + 1) |-> s[a + i]]

\* the value without one trailing Z
WithoutZ(v) == IF Len(v) > 0 /\ v[Len(v)] = "Z" THEN [i \in 1..(Len(v) - 1) |-> v[i]] ELSE v

Unset == [date |-> <<>>, time |-> NULL]

\* C22: after removing one trailing Z, an 8-character value gives the date of
\* its characters 0-7 and no time; a value of at least 15 characters that
\* contains T gives the date of characters 0-7 and the time HH:MM of characters
\* 9-12; every other value, the empty one included, gives an unset date and no
\* time.
C22_BoundaryParsing ==
    pc = "parsed" =>
        LET v == call.value
            c == IF v = UNDEF THEN <<>> ELSE WithoutZ(v)
            day == Chars(c, 0, 3) \o <<"-">> \o Chars(c, 4, 5) \o <<"-">> \o Chars(c, 6, 7)
        IN IF v # UNDEF /\ v # <<>> /\ Len(c) = 8
           THEN call.result = [date |-> day, time |-> NULL]
           ELSE IF v # UNDEF /\ Len(c) >= 15 /\ "T" \in {c[i] : i \in 1..Len(c)}
           THEN call.result = [date |-> day, time |-> Chars(c, 9, 10) \o <<":">> \o Chars(c, 11, 12)]
           ELSE call.result = Unset

\* a UTC stamp ...T093000Z was parsed to 09:30 of its day
C22_Witness ==
    /\ pc = "parsed"
    /\ call.value = V_Stamp
    /\ call.result = [date |-> ISO(2026, 3, 15), time |-> <<"0", "9", ":", "3", "0">>]

-----------------------------------------------------------------------------
(* One line met inside an open block: the loop body of parseICS on its own. *)

K_DTSTART == <<"D", "T", "S", "T", "A", "R", "T">>
K_DTEND == <<"D", "T", "E", "N", "D">>
K_SUMMARY == <<"S", "U", "M", "M", "A", "R", "Y">>
K_DESCRIPTION == <<"D", "E", "S", "C", "R", "I", "P", "T", "I", "O", "N">>

LineKeys ==
    {K_DTSTART, <<"d", "t", "s", "t", "a", "r", "t">>, <<"D", "t", "S", "t", "a", "r", "t">>,
     K_DTEND, <<"d", "t", "e", "n", "d">>,
     K_SUMMARY, <<"S", "u", "m", "m", "a", "r", "y">>,
     K_DESCRIPTION, <<"d", "e", "s", "c", "r", "i", "p", "t", "i", "o", "n">>,
     <<"U", "I", "D">>, <<"X", "-", "D", "T", "S", "T", "A", "R", "T">>,
     <<"D", "T", "S", "T", "A", "R", "T", "S">>, <<>>}

LineParams ==
    {<<>>, <<";", "V", "A", "L", "U", "E", "=", "D", "A", "T", "E">>,
     <<";", "T", "Z", "I", "D", "=", "E", "u", "r", "o", "p", "e", "/", "P", "a", "r", "i", "s">>,
     <<";", "X", "=", "1", ";", "T", "Z", "I", "D", "=", "\"", "a", ":", "b", "\"">>}

LineValues ==
    {V_20260501, V_0930, <<>>, <<"a", ":", "b", ":", "c">>, <<"x", ";", "y">>, <<":">>}

PropertyLines ==
    {k \o p \o <<":">> \o v : k \in LineKeys, p \in LineParams, v \in LineValues}
    \cup {k \o p : k \in LineKeys, p \in LineParams}

FullBag == [dtstart |-> V_20260101, dtend |-> V_20260103, summary |-> <<"o", "l", "d">>, description |-> <<"o", "l", "d">>]

InitLine ==
    /\ pc = "line"
    /\ clock \in {ISO(2026, 11, 3)}
    /\ uuidNext = 0
    /\ events = <<>> /\ blocks = <<>> /\ ics = <<>> /\ options = <<>> /\ imported = <<>>
    /\ text = <<>> /\ escaped = <<>> /\ unescaped = <<>>
    /\ line = <<>> /\ folded = <<>> /\ unfolded = <<>>
    /\ call \in [current : {EmptyBag, FullBag}, line : PropertyLines \ {<<>>}]
    /\ swipe = <<>> /\ loop = <<>>

\* one turn of the loop of parseICS with inEvent true
ReadLine ==
    /\ pc = "line"
    /\ call' = [current |-> call.current, line |-> call.line,
                result |-> ParseLine([inEvent |-> TRUE, current |-> call.current, events |-> <<>>, uuid |-> 0],
                                     call.line, <<>>)]
    /\ pc' = "read"
    /\ UNCHANGED <<clock, uuidNext, events, blocks, ics, options, imported,
                   text, escaped, unescaped, line, folded, unfolded, swipe, loop>>

NextLine == ReadLine

SpecLine == InitLine /\ [][NextLine]_vars

\* the positions of a character in a text
Positions(s, c) == {i \in 1..Len(s) : s[i] = c}

First(S) == CHOOSE i \in S : \A j \in S : i <= j

\* the text before the first c, the whole text when it has none
Before1(s, c) == IF Positions(s, c) = {} THEN s ELSE [i \in 1..(First(Positions(s, c)) - 1) |-> s[i]]

\* the text after the first c
After1(s, c) == [i \in 1..(Len(s) - First(Positions(s, c))) |-> s[First(Positions(s, c)) + i]]

\* two texts equal up to the case of their letters
SameLetters(a, b) ==
    /\ Len(a) = Len(b)
    /\ \A i \in 1..Len(a) : a[i] = b[i] \/ \E k \in 1..26 : {a[i], b[i]} = {LowerCase[k], UpperCase[k]}

\* the bag a line must leave, by the rule of the claim
BagAfter(bag, l) ==
    IF Positions(l, ":") = {} THEN bag
    ELSE LET base == Before1(Before1(l, ":"), ";")
             value == After1(l, ":")
         IN IF SameLetters(base, K_DTSTART) THEN [bag EXCEPT !.dtstart = value]
            ELSE IF SameLetters(base, K_DTEND) THEN [bag EXCEPT !.dtend = value]
            ELSE IF SameLetters(base, K_SUMMARY) THEN [bag EXCEPT !.summary = unescapeText(value)]
            ELSE IF SameLetters(base, K_DESCRIPTION) THEN [bag EXCEPT !.description = unescapeText(value)]
            ELSE bag

\* C23: a line inside a block is split at its first colon; the part of the
\* key before the first semicolon, compared without regard to case, selects the
\* property, whatever parameters follow; the value is everything after the
\* first colon; a line with an unknown key or no colon leaves the bag as it
\* was, and the block stays open with no record made.
C23_PropertyLine ==
    pc = "read" =>
        /\ call.result.current = BagAfter(call.current, call.line)
        /\ call.result.inEvent /\ call.result.events = <<>>

\* a lower-case dtstart with a TZID parameter set the start boundary of a
\* bag, the value a:b:c whole, and left the other three properties
C23_Witness ==
    /\ pc = "read"
    /\ call.current = FullBag
    /\ call.line = <<"d", "t", "s", "t", "a", "r", "t">>
                    \o <<";", "T", "Z", "I", "D", "=", "E", "u", "r", "o", "p", "e", "/", "P", "a", "r", "i", "s">>
                    \o <<":", "a", ":", "b", ":", "c">>
    /\ call.result.current = [FullBag EXCEPT !.dtstart = <<"a", ":", "b", ":", "c">>]

-----------------------------------------------------------------------------
(* useSwipe: the hook mounted on an element, touch events delivered to its *)
(* handlers one at a time, and the timers it has set.  The clock of the    *)
(* page is not part of the state: the time a gesture took is an input of   *)
(* touchend, and a pending timer may expire at any later step.             *)

MIN_THRESHOLD_PX == 50
THRESHOLD_PCT == 15     \* THRESHOLD_RATIO, in hundredths
MAX_ANIM_MS == 300
MIN_ANIM_MS == 120
LOCK_PX == 10
DEFAULT_WIDTH == 400
SNAP_MS == 200

Abs(n) == IF n < 0 THEN 0 - n ELSE n

D_LEFT == <<"l", "e", "f", "t">>
D_RIGHT == <<"r", "i", "g", "h", "t">>

\* `transform ${ms}ms ease-out`
TransitionOf(ms) ==
    <<"t", "r", "a", "n", "s", "f", "o", "r", "m", " ">> \o NatToStr(ms)
        \o <<"m", "s", " ", "e", "a", "s", "e", "-", "o", "u", "t">>

\* { offsetX: 0, isSwiping: false, transition: '', direction: null }
IdleState == [offsetX |-> 0, isSwiping |-> FALSE, transition |-> <<>>, direction |-> NULL]

\* the hook's swipeState with other values for its four fields
SetSwipeState(sw, st) ==
    [sw EXCEPT !.offsetX = st.offsetX, !.isSwiping = st.isSwiping,
               !.transition = st.transition, !.direction = st.direction]

\* el ? el.offsetWidth : 400
WidthOf(el) == IF el = <<>> THEN DEFAULT_WIDTH ELSE el[1].offsetWidth

\* a threshold that ignores the width of the element
BelowThreshold_Fixed(absDx, width) == absDx < MIN_THRESHOLD_PX

\* absDx < Math.max(MIN_THRESHOLD_PX, width * THRESHOLD_RATIO)
BelowThreshold(absDx, width) == absDx < MIN_THRESHOLD_PX \/ absDx * 100 < width * THRESHOLD_PCT

\* Math.round(Math.min(MAX_ANIM_MS, Math.max(MIN_ANIM_MS, remaining / velocity)))
\* with velocity = absDx / elapsed and remaining = width - absDx
DurationOf(width, absDx, elapsed) ==
    LET num == (width - absDx) * elapsed
    IN IF num <= MIN_ANIM_MS * absDx THEN MIN_ANIM_MS
       ELSE IF num >= MAX_ANIM_MS * absDx THEN MAX_ANIM_MS
       ELSE (2 * num + absDx) \div (2 * absDx)

\* where the finger goes, relative to where it touched down
TouchDown == [clientX |-> 200, clientY |-> 100]
SwipeDisplacements ==
    {<<5, 0>>, <<10, 11>>, <<11, 11>>, <<0 - 60, 60>>,
     <<49, 0>>, <<50, 0>>, <<51, 0>>, <<59, 0>>, <<60, 0>>, <<0 - 50, 0>>, <<0 - 60, 0>>}
Touches == {[clientX |-> TouchDown.clientX + d[1], clientY |-> TouchDown.clientY + d[2]] : d \in SwipeDisplacements}

\* Date.now() - startTime.current at touchend
ElapsedMs == {0, 40, 400}

\* ref.current: no element, or an element of some width
Elements == {<<>>, <<[offsetWidth |-> 200]>>, <<[offsetWidth |-> 334]>>}

\* what is kept of a gesture that ended: whether its first movement beyond
\* LOCK_PX was at least as wide as high, and how far from the touch-down point
\* the finger was lifted
Summary(first, last) ==
    [horizontal |-> first # <<>> /\ Abs(first[1].clientX - TouchDown.clientX) >= Abs(first[1].clientY - TouchDown.clientY),
     dx |-> last.clientX - TouchDown.clientX]

InitSwipe ==
    /\ pc = "mounted"
    /\ clock \in {ISO(2026, 11, 3)}
    /\ uuidNext = 0
    /\ events = <<>> /\ blocks = <<>> /\ ics = <<>> /\ options = <<>> /\ imported = <<>>
    /\ text = <<>> /\ escaped = <<>> /\ unescaped = <<>>
    /\ line = <<>> /\ folded = <<>> /\ unfolded = <<>>
    /\ call = <<>>
    /\ swipe = [offsetX |-> 0, isSwiping |-> FALSE, transition |-> <<>>, direction |-> NULL,
                startX |-> 0, startY |-> 0, currentX |-> 0, locked |-> FALSE, horizontal |-> FALSE]
    /\ \E el \in Elements :
         loop = [el |-> el, touching |-> FALSE, moves |-> 0,
                 first |-> <<>>,        \* the first movement beyond LOCK_PX of the gesture in progress
                 last |-> TouchDown,    \* where the finger of the gesture in progress is
                 ended |-> <<>>,        \* the gestures that ended: how each began and where it ended
                 timers |-> {},         \* the pending setTimeout callbacks
                 called |-> <<>>]       \* the callbacks run so far

SwipeFrame == UNCHANGED <<pc, clock, uuidNext, events, blocks, ics, options, imported,
                          text, escaped, unescaped, line, folded, unfolded, call>>

onTouchStart ==
    /\ pc = "mounted"
    /\ ~loop.touching
    /\ Len(loop.ended) < MaxGestures
    /\ LET t == TouchDown
       IN /\ swipe' = SetSwipeState([swipe EXCEPT !.startX = t.clientX, !.startY = t.clientY,
                                                  !.currentX = t.clientX,
                                                  !.locked = FALSE, !.horizontal = FALSE],
                                    IdleState)
          /\ loop' = [loop EXCEPT !.touching = TRUE, !.moves = 0, !.first = <<>>, !.last = t]
    /\ SwipeFrame

onTouchMove ==
    /\ pc = "mounted"
    /\ loop.touching
    /\ loop.moves < MaxMoves
    /\ \E t \in Touches :
         LET dx == t.clientX - swipe.startX
             dy == t.clientY - swipe.startY
             locks == ~swipe.locked /\ (Abs(dx) > LOCK_PX \/ Abs(dy) > LOCK_PX)
             locked1 == swipe.locked \/ locks
             horizontal1 == IF locks THEN Abs(dx) >= Abs(dy) ELSE swipe.horizontal
             refs == [swipe EXCEPT !.locked = locked1, !.horizontal = horizontal1]
             far == Abs(t.clientX - TouchDown.clientX) > LOCK_PX \/ Abs(t.clientY - TouchDown.clientY) > LOCK_PX
         IN /\ swipe' = IF ~horizontal1 THEN refs
                        ELSE SetSwipeState([refs EXCEPT !.currentX = t.clientX],
                                           [offsetX |-> dx, isSwiping |-> TRUE, transition |-> <<>>,
                                            direction |-> IF dx < 0 THEN D_LEFT ELSE D_RIGHT])
            /\ loop' = [loop EXCEPT !.moves = loop.moves + 1, !.last = t,
                                    !.first = IF loop.first = <<>> /\ far THEN <<t>> ELSE loop.first]
    /\ SwipeFrame

onTouchEnd ==
    /\ pc = "mounted"
    /\ loop.touching
    /\ \E elapsed0 \in ElapsedMs :
         LET gesture == Len(loop.ended) + 1
             over == [loop EXCEPT !.touching = FALSE,
                                  !.ended = Append(loop.ended, Summary(loop.first, loop.last))]
             width == WidthOf(loop.el)
             dx == swipe.currentX - swipe.startX
             absDx == Abs(dx)
             elapsed == IF elapsed0 = 0 THEN 1 ELSE elapsed0
             duration == DurationOf(width, absDx, elapsed)
             dir == IF dx < 0 THEN D_LEFT ELSE D_RIGHT
             cb == IF dx < 0 THEN "onSwipeLeft" ELSE "onSwipeRight"
         IN IF ~swipe.horizontal
            THEN /\ swipe' = SetSwipeState(swipe, IdleState)
                 /\ loop' = over
            ELSE IF BelowThreshold(absDx, width)
            THEN /\ swipe' = SetSwipeState(swipe, [offsetX |-> 0, isSwiping |-> FALSE,
                                                   transition |-> TransitionOf(SNAP_MS), direction |-> NULL])
                 /\ loop' = over
            ELSE /\ swipe' = SetSwipeState(swipe, [offsetX |-> IF dx < 0 THEN 0 - width ELSE width,
                                                   isSwiping |-> TRUE,
                                                   transition |-> TransitionOf(duration), direction |-> dir])
                 /\ loop' = [over EXCEPT !.timers = loop.timers \cup {[gesture |-> gesture, cb |-> cb]}]
    /\ SwipeFrame

\* the callback handed to setTimeout: cb?.() and then the reset of swipeState
SlideOutTimer ==
    /\ pc = "mounted"
    /\ \E timer \in loop.timers :
         /\ loop' = [loop EXCEPT !.timers = loop.timers \ {timer},
                                 !.called = Append(loop.called, [gesture |-> timer.gesture, cb |-> timer.cb])]
         /\ swipe' = SetSwipeState(swipe, IdleState)
    /\ SwipeFrame

NextSwipe == onTouchStart \/ onTouchMove \/ onTouchEnd \/ SlideOutTimer

SpecSwipe == InitSwipe /\ [][NextSwipe]_vars

\* a gesture that must end in a callback: locked as horizontal, and lifted at
\* least max(50 px, 15 % of the width) away from where it began
Qualifies(g, el) ==
    /\ g.horizontal
    /\ Abs(g.dx) >= 50
    /\ Abs(g.dx) * 100 >= 15 * WidthOf(el)

\* how often a callback was run for gesture k, and how many timers it has pending
TimesCalled(l, k) == Cardinality({i \in 1..Len(l.called) : l.called[i].gesture = k})
TimersPending(l, k) == Cardinality({t \in l.timers : t.gesture = k})

\* every ended gesture has the callbacks the rule gives it
CallbacksByRule(l) ==
    /\ \A i \in 1..Len(l.called) : l.called[i].gesture <= Len(l.ended)
    /\ \A k \in 1..Len(l.ended) :
         IF Qualifies(l.ended[k], l.el)
         THEN /\ TimesCalled(l, k) + TimersPending(l, k) = 1
              /\ \A i \in 1..Len(l.called) :
                   l.called[i].gesture = k =>
                       l.called[i].cb = IF l.ended[k].dx < 0 THEN "onSwipeLeft" ELSE "onSwipeRight"
         ELSE TimesCalled(l, k) = 0 /\ TimersPending(l, k) = 0

\* a step that runs a callback is the expiry of a timer, not a touch event,
\* and leaves the hook idle
CalledByTimer(l, l2, s2) ==
    l2.called # l.called =>
        /\ l2.ended = l.ended /\ l2.touching = l.touching
        /\ l2.timers # l.timers /\ l2.timers \subseteq l.timers
        /\ s2.offsetX = 0 /\ ~s2.isSwiping /\ s2.transition = <<>>

\* C26: over a gesture touchstart, touchmove*, touchend a callback is run if
\* and only if the gesture locked as horizontal and was lifted at least
\* max(50 px, 15 % of the element width) away; then it is run once (its timer is
\* pending or has expired, never both, never twice), onSwipeLeft for dx < 0 and
\* onSwipeRight for dx > 0, by the expiry of the slide-out timer and not by
\* touchend, and the expiry leaves offsetX 0, isSwiping false and an empty
\* transition; any other gesture runs no callback and sets no timer.
C26_SwipeCallbackRule ==
    [][CallbacksByRule(loop') /\ CalledByTimer(loop, loop', swipe')]_vars

\* on an element of default width a gesture that locked on a diagonal
\* movement and was lifted 60 px to the left has run onSwipeLeft, once
C26_Witness ==
    /\ pc = "mounted"
    /\ loop.el = <<>>
    /\ Len(loop.ended) = 1 /\ loop.ended[1] = [horizontal |-> TRUE, dx |-> 0 - 60]
    /\ loop.called = <<[gesture |-> 1, cb |-> "onSwipeLeft"]>>
    /\ loop.timers = {}
    /\ swipe.offsetX = 0 /\ ~swipe.isSwiping /\ swipe.transition = <<>> /\ swipe.direction = NULL

\* the gestures begun so far
GesturesBegun(l) == Len(l.ended) + IF l.touching THEN 1 ELSE 0

\* C30: the expiry of a slide-out timer does not change offsetX, isSwiping or
\* direction when a gesture has begun after the touchend that set the timer.
C30_TimerLeavesNewerGesture ==
    [][\A t \in loop.timers :
          (loop'.timers = loop.timers \ {t} /\ loop'.called # loop.called /\ t.gesture < GesturesBegun(loop))
              => /\ swipe'.offsetX = swipe.offsetX
                 /\ swipe'.isSwiping = swipe.isSwiping
                 /\ swipe'.direction = swipe.direction]_vars

=============================================================================
